---------------------------- MODULE Spec2Model ----------------------------
(***************************************************************************)
(* State-machine model of the srt-creator subtitle editor:                 *)
(*   - useSubtitleHistory (src/hooks/useSubtitleHistory.ts, second copy,   *)
(*     lines 55-138): the undo/redo stack;                                 *)
(*   - useSubtitleActions (src/unnamed/part_001): edit, delete, split,     *)
(*     merge, selection over the flat list of subtitle entries;            *)
(*   - srtParser (src/README.md lines 89-164): the time-string helpers;    *)
(*   - App wiring (src/README.md lines 166-388), useTranscribe and         *)
(*     useFileHandler.                                                     *)
(*                                                                         *)
(* JavaScript strings are modelled as sequences of one-character strings,  *)
(* so that the regular expression, split, slice, trim and padEnd are       *)
(* computed character by character.  Array positions are 0-based in the    *)
(* source; a TLA+ sequence is 1-based, so the source's a[i] is a[i + 1]    *)
(* here.  historyPointer, selectedIndices, lastSelectedIndex and every     *)
(* index argument keep the source's 0-based values.                        *)
(***************************************************************************)
EXTENDS Integers, Sequences, FiniteSets

VARIABLES
    history,            \* useSubtitleHistory: SubtitleEntry[][]
    historyPointer,     \* useSubtitleHistory: number, -1 when empty
    subtitles,          \* useSubtitleActions: SubtitleEntry[]
    selectedIndices,    \* useSubtitleActions: number[] (0-based positions)
    lastSelectedIndex,  \* useSubtitleActions: number | null (-1 models null)
    focusedIndex,       \* useSubtitleActions: number | null (-1 models null)
    focus,              \* the DOM: which input of which row has the focus
    file,               \* useFileHandler: 0 models null, else a file id
    isProcessing,       \* useTranscribe
    error,              \* useTranscribe: "" models null
    pending,            \* transcription requests in flight, with their closures
    audioUrl,           \* useFileHandler: 0 models null, else the object URL of a file
    duration,           \* useFileHandler: milliseconds, 0 until the metadata loads
    range,              \* useFileHandler: [start, end] in milliseconds
    loadingAudio,       \* the Audio elements whose metadata is still to load
    steps,              \* how many handlers of the application have run
    last                \* the last handler that ran: its name, arguments,
                        \* return value and the state it started from

vars == <<history, historyPointer, subtitles, selectedIndices, lastSelectedIndex,
          focusedIndex, focus, file, isProcessing, error, pending, audioUrl, duration,
          range, loadingAudio, steps, last>>

appVars == <<subtitles, selectedIndices, lastSelectedIndex, focusedIndex, focus,
             file, isProcessing, error, pending, audioUrl, duration, range, loadingAudio,
             steps>>

playerVars == <<audioUrl, duration, range, loadingAudio>>

-----------------------------------------------------------------------------
(* Program constants and model bounds *)

MAX_HISTORY == 50

\* In the hook-level specification a push may choose freely among the test
\* states while the history is shorter than FreeLen; from there on it pushes
\* the successor of the current tip, so that the cap of MAX_HISTORY is reached
\* without enumerating every word of 50 snapshots.
FreeLen == 3

\* The application-level specification runs at most MaxSteps handlers.
MaxSteps == 7

-----------------------------------------------------------------------------
(* Strings *)

Digits == {"0", "1", "2", "3", "4", "5", "6", "7", "8", "9"}

SecTens == {"0", "1", "2", "3", "4", "5"}

Min(a, b) == IF a <= b THEN a ELSE b

Max(a, b) == IF a >= b THEN a ELSE b

\* s.slice(from, to) with 0 <= from, to: characters from .. to-1 (0-based)
Slice(s, from, to) == SubSeq(s, from + 1, Min(to, Len(s)))

\* s.includes(c)
Includes(s, c) == \E i \in 1..Len(s) : s[i] = c

\* s.indexOf(c) as a 1-based position, 0 when absent
IndexOf(s, c) == IF Includes(s, c) THEN CHOOSE i \in 1..Len(s) : s[i] = c /\ \A j \in 1..(i - 1) : s[j] # c ELSE 0

\* number of occurrences of c in s, that is s.split(c).length - 1
Count(s, c) == Cardinality({i \in 1..Len(s) : s[i] = c})

\* s.split(c)[0]
SplitHead(s, c) == IF Includes(s, c) THEN SubSeq(s, 1, IndexOf(s, c) - 1) ELSE s

\* s.split(c).slice(1).join(c): what follows the first c
SplitRest(s, c) == IF Includes(s, c) THEN SubSeq(s, IndexOf(s, c) + 1, Len(s)) ELSE <<>>

\* s.padEnd(n, c)
PadEnd(s, n, c) == s \o [i \in 1..Max(n - Len(s), 0) |-> c]


-----------------------------------------------------------------------------
(* srtParser: time strings *)

\* TIME_REGEX = /^(\d+):([0-5]\d)\.(\d{3})$/ : one or more digits, a colon,
\* a digit 0-5, a digit, a dot, three digits, and nothing else.
validateTimeFormat(time) ==
    LET n == Len(time) IN
    /\ n >= 8
    /\ \A i \in 1..(n - 7) : time[i] \in Digits
    /\ time[n - 6] = ":"
    /\ time[n - 5] \in SecTens
    /\ time[n - 4] \in Digits
    /\ time[n - 3] = "."
    /\ \A i \in (n - 2)..n : time[i] \in Digits

\* autoCompleteTime: pads the milliseconds of "M:S" or "M:S.m" to three digits
autoCompleteTime(time) ==
    IF validateTimeFormat(time) THEN time
    ELSE IF ~Includes(time, ":") THEN time
    ELSE IF Count(time, ":") # 1 THEN time
    ELSE LET minutes == SplitHead(time, ":")
             secondsPart == SplitRest(time, ":")
             seconds == IF Includes(secondsPart, ".") THEN SplitHead(secondsPart, ".") ELSE secondsPart
             millis == IF Includes(secondsPart, ".") THEN SplitHead(SplitRest(secondsPart, "."), ".") ELSE <<>>
             completedMillis == PadEnd(millis, 3, "0")
         IN minutes \o <<":">> \o seconds \o <<".">> \o completedMillis

\* decimal digits: parseInt on a run of digits, and Number.toString
DigitSeq == <<"0", "1", "2", "3", "4", "5", "6", "7", "8", "9">>

DigitVal(c) == (CHOOSE d \in 1..10 : DigitSeq[d] = c) - 1

RECURSIVE ParseInt(_)
ParseInt(s) == IF s = <<>> THEN 0 ELSE 10 * ParseInt(SubSeq(s, 1, Len(s) - 1)) + DigitVal(s[Len(s)])

RECURSIVE NumToString(_)
NumToString(n) == IF n < 10 THEN <<DigitSeq[n + 1]>> ELSE NumToString(n \div 10) \o <<DigitSeq[(n % 10) + 1]>>

\* s.padStart(n, c)
PadStart(s, n, c) == [i \in 1..Max(n - Len(s), 0) |-> c] \o s

\* timeToSeconds, in whole milliseconds: 0 for a string the regex rejects
timeToSeconds(time) ==
    IF ~validateTimeFormat(time) THEN 0
    ELSE LET n == Len(time)
             mins == ParseInt(SubSeq(time, 1, n - 7))
             secs == ParseInt(SubSeq(time, n - 5, n - 4))
             ms == ParseInt(SubSeq(time, n - 2, n))
         IN mins * 60000 + secs * 1000 + ms

\* JavaScript numbers. The times are IEEE-754 doubles; a non-negative double
\* of the time arithmetic is held exactly, as a whole number of 2^-75 seconds,
\* and that whole number as its limbs of 15 bits, lowest first, <<>> for zero.
\* Every double met here is zero or at least 2^-22, so 2^-75 divides it.
LimbBits == 15

LimbBase == 2^LimbBits

\* limbs below the binary point, and limbs a quotient is extended by
FractionLimbs == 5

GuardLimbs == 4

\* operands are values: F is applied to the value of its operand
WithValue(operand, F(_)) == CHOOSE r \in {F(v) : v \in {operand}} : TRUE

RECURSIVE BigOf(_)
BigOf(n) == IF n = 0 THEN <<>> ELSE <<n % LimbBase>> \o BigOf(n \div LimbBase)

RECURSIVE BigToIntFrom(_, _)
BigToIntFrom(a, i) == IF i > Len(a) THEN 0 ELSE a[i] + LimbBase * BigToIntFrom(a, i + 1)

BigToInt(a) == WithValue(a, LAMBDA v : BigToIntFrom(v, 1))

RECURSIVE TopLimb(_, _)
TopLimb(a, i) == IF i > 0 /\ a[i] = 0 THEN TopLimb(a, i - 1) ELSE i

BigNorm(a) == WithValue(a, LAMBDA v : SubSeq(v, 1, TopLimb(v, Len(v))))

LimbAt(a, i) == IF i <= Len(a) THEN a[i] ELSE 0

ShiftLimbs(a, k) == WithValue(a, LAMBDA v : IF v = <<>> THEN <<>> ELSE [i \in 1..k |-> 0] \o v)

DropLimbs(a, k) == WithValue(a, LAMBDA v : IF Len(v) <= k THEN <<>> ELSE SubSeq(v, k + 1, Len(v)))

RECURSIVE BigAddFrom(_, _, _, _)
BigAddFrom(a, b, i, carry) ==
    IF i > Len(a) /\ i > Len(b) THEN (IF carry = 0 THEN <<>> ELSE <<carry>>)
    ELSE WithValue(LimbAt(a, i) + LimbAt(b, i) + carry,
                   LAMBDA x : <<x % LimbBase>> \o BigAddFrom(a, b, i + 1, x \div LimbBase))

BigAdd(a, b) == WithValue(<<a, b>>, LAMBDA v : BigAddFrom(v[1], v[2], 1, 0))

RECURSIVE BigSubFrom(_, _, _, _)
BigSubFrom(a, b, i, borrow) ==
    IF i > Len(a) THEN <<>>
    ELSE WithValue(a[i] - LimbAt(b, i) - borrow,
                   LAMBDA x : <<IF x < 0 THEN x + LimbBase ELSE x>>
                                \o BigSubFrom(a, b, i + 1, IF x < 0 THEN 1 ELSE 0))

\* a - b for a >= b
BigSub(a, b) == WithValue(<<a, b>>, LAMBDA v : BigNorm(BigSubFrom(v[1], v[2], 1, 0)))

RECURSIVE BigLessFrom(_, _, _)
BigLessFrom(a, b, i) ==
    IF i = 0 THEN FALSE
    ELSE IF a[i] # b[i] THEN a[i] < b[i]
    ELSE BigLessFrom(a, b, i - 1)

BigLess(a, b) ==
    WithValue(<<a, b>>, LAMBDA v : IF Len(v[1]) # Len(v[2]) THEN Len(v[1]) < Len(v[2])
                                   ELSE BigLessFrom(v[1], v[2], Len(v[1])))

RECURSIVE BigTimesSmallFrom(_, _, _, _)
BigTimesSmallFrom(a, k, i, carry) ==
    IF i > Len(a) THEN (IF carry = 0 THEN <<>> ELSE <<carry>>)
    ELSE WithValue(a[i] * k + carry,
                   LAMBDA x : <<x % LimbBase>> \o BigTimesSmallFrom(a, k, i + 1, x \div LimbBase))

\* a * k for a whole number k below 2^15
BigTimesSmall(a, k) == WithValue(<<a, k>>, LAMBDA v : BigNorm(BigTimesSmallFrom(v[1], v[2], 1, 0)))

RECURSIVE BigTimesFrom(_, _, _)
BigTimesFrom(a, b, i) ==
    IF i > Len(b) THEN <<>>
    ELSE BigAdd(BigTimesSmall(a, b[i]), ShiftLimbs(BigTimesFrom(a, b, i + 1), 1))

BigTimes(a, b) == WithValue(<<a, b>>, LAMBDA v : BigTimesFrom(v[1], v[2], 1))

RECURSIVE BigDivSmallFrom(_, _, _, _)
BigDivSmallFrom(a, k, i, rem) ==
    IF i = 0 THEN [quot |-> <<>>, rem |-> rem]
    ELSE WithValue(rem * LimbBase + a[i],
                   LAMBDA x : WithValue(BigDivSmallFrom(a, k, i - 1, x % k),
                                        LAMBDA rest : [quot |-> rest.quot \o <<x \div k>>, rem |-> rest.rem]))

\* quotient and remainder of a by a whole number k, 0 < k <= 2^15
BigDivSmall(a, k) ==
    WithValue(<<a, k>>, LAMBDA v :
        WithValue(BigDivSmallFrom(v[1], v[2], Len(v[1]), 0),
                  LAMBDA r : [quot |-> BigNorm(r.quot), rem |-> r.rem]))

RECURSIVE BitLength(_)
BitLength(n) == IF n = 0 THEN 0 ELSE 1 + BitLength(n \div 2)

BigBitLength(a) ==
    WithValue(a, LAMBDA v : IF v = <<>> THEN 0 ELSE LimbBits * (Len(v) - 1) + BitLength(v[Len(v)]))

\* a, longer than 53 bits by drop, rounded to nearest, ties to even
RoundAt(a, sticky, drop) ==
    LET limbs == drop \div LimbBits
        bits == drop % LimbBits
    IN WithValue(BigDivSmall(DropLimbs(a, limbs), 2^bits), LAMBDA d :
        LET kept == d.quot
            top == IF bits > 0 THEN d.rem ELSE a[limbs]
            half == IF bits > 0 THEN 2^(bits - 1) ELSE LimbBase \div 2
            below == BigNorm(SubSeq(a, 1, IF bits > 0 THEN limbs ELSE limbs - 1))
            above == top > half \/ (top = half /\ (below # <<>> \/ sticky))
            tie == top = half /\ below = <<>> /\ ~sticky
            up == above \/ (tie /\ kept[1] % 2 = 1)
        IN ShiftLimbs(BigTimesSmall(IF up THEN BigAdd(kept, <<1>>) ELSE kept, 2^bits), limbs))

\* round to nearest, ties to even, at 53 significant bits: the double nearest
\* to a, or to a value strictly between a and a + 1 when sticky
RoundToDouble(a, sticky) ==
    WithValue(<<a, sticky>>, LAMBDA v :
        WithValue(BigBitLength(v[1]) - 53, LAMBDA drop :
            IF drop <= 0 THEN v[1] ELSE RoundAt(v[1], v[2], drop)))

\* the double of a whole number
NumberOf(n) == ShiftLimbs(BigOf(n), FractionLimbs)

\* a + b, a - b (for a >= b), a * b and a / k in double arithmetic
NumberPlus(a, b) == RoundToDouble(BigAdd(a, b), FALSE)

NumberMinus(a, b) == RoundToDouble(BigSub(a, b), FALSE)

NumberTimes(a, b) == DropLimbs(RoundToDouble(BigTimes(a, b), FALSE), FractionLimbs)

NumberDividedBy(a, k) ==
    WithValue(BigDivSmall(ShiftLimbs(a, GuardLimbs), k), LAMBDA d :
        DropLimbs(RoundToDouble(d.quot, d.rem # 0), GuardLimbs))

\* Math.floor(a) and a % 1 of a double a >= 0
NumberFloor(a) == BigToInt(DropLimbs(a, FractionLimbs))

NumberFraction(a) == WithValue(a, LAMBDA v : BigNorm(SubSeq(v, 1, Min(FractionLimbs, Len(v)))))

\* timeToSeconds as the number it returns: mins * 60 + secs + ms / 1000
timeToSecondsNumber(time) ==
    IF ~validateTimeFormat(time) THEN NumberOf(0)
    ELSE LET n == Len(time)
             mins == ParseInt(SubSeq(time, 1, n - 7))
             secs == ParseInt(SubSeq(time, n - 5, n - 4))
             ms == ParseInt(SubSeq(time, n - 2, n))
         IN NumberPlus(NumberOf(mins * 60 + secs), NumberDividedBy(NumberOf(ms), 1000))

\* formatSecondsToMMSS of a number seconds >= 0
formatSecondsToMMSS(seconds) ==
    WithValue(seconds, LAMBDA v :
        LET m == NumberFloor(NumberDividedBy(v, 60))
            s == NumberFloor(v) % 60
            ms == NumberFloor(RoundToDouble(BigTimesSmall(NumberFraction(v), 1000), FALSE))
        IN PadStart(NumToString(m), 2, "0") \o <<":">> \o PadStart(NumToString(s), 2, "0")
             \o <<".">> \o PadStart(NumToString(ms), 3, "0"))

\* String.prototype.trim, the blank being the only white space of the model
RECURSIVE TrimStart(_)
TrimStart(s) == IF s # <<>> /\ Head(s) = " " THEN TrimStart(Tail(s)) ELSE s

RECURSIVE TrimEnd(_)
TrimEnd(s) == IF s # <<>> /\ s[Len(s)] = " " THEN TrimEnd(SubSeq(s, 1, Len(s) - 1)) ELSE s

Trim(s) == TrimEnd(TrimStart(s))

\* s.split(c)[1]: what lies between the first c and the next one; undefined
\* without a c, which the tests below (!secsPart, !millis) treat as they
\* treat the empty string
SplitSecond(s, c) == SplitHead(SplitRest(s, c), c)

\* the digits a string starts with
RECURSIVE DigitPrefix(_)
DigitPrefix(s) == IF s # <<>> /\ Head(s) \in Digits THEN <<Head(s)>> \o DigitPrefix(Tail(s)) ELSE <<>>

\* parseInt(s, 10) || 0 on strings without a sign: leading blanks skipped,
\* then the digits up to the first other character; NaN becomes 0
ParseIntOrZero(s) == ParseInt(DigitPrefix(TrimStart(s)))

\* mutant: minutes of 60 or more are not carried into the hours
MutFormatTimeNoCarry(time) ==
    LET minsPart == SplitHead(time, ":")
        secsRaw == SplitSecond(time, ":")
        secsPart == IF secsRaw = <<>> THEN <<"0", "0", ".", "0", "0", "0">> ELSE secsRaw
        seconds == SplitHead(secsPart, ".")
        millisRaw == SplitSecond(secsPart, ".")
        millis == IF millisRaw = <<>> THEN <<"0", "0", "0">> ELSE millisRaw
        totalMinutes == ParseIntOrZero(minsPart)
        h == <<"0", "0">>
        m == PadStart(NumToString(totalMinutes), 2, "0")
        s == PadStart(seconds, 2, "0")
        ms == Slice(PadEnd(millis, 3, "0"), 0, 3)
    IN h \o <<":">> \o m \o <<":">> \o s \o <<",">> \o ms

\* convertToSRT's formatTime: "M:SS.mmm" to "HH:MM:SS,mmm"
formatTime(time) ==
    LET minsPart == SplitHead(time, ":")
        secsRaw == SplitSecond(time, ":")
        secsPart == IF secsRaw = <<>> THEN <<"0", "0", ".", "0", "0", "0">> ELSE secsRaw
        seconds == SplitHead(secsPart, ".")
        millisRaw == SplitSecond(secsPart, ".")
        millis == IF millisRaw = <<>> THEN <<"0", "0", "0">> ELSE millisRaw
        totalMinutes == ParseIntOrZero(minsPart)
        hours == totalMinutes \div 60
        minutes == totalMinutes % 60
        h == PadStart(NumToString(hours), 2, "0")
        m == PadStart(NumToString(minutes), 2, "0")
        s == PadStart(seconds, 2, "0")
        ms == Slice(PadEnd(millis, 3, "0"), 0, 3)
    IN h \o <<":">> \o m \o <<":">> \o s \o <<",">> \o ms

\* the block convertToSRT renders for one entry
SrtBlock(entry) ==
    NumToString(entry.index) \o <<"\n">>
        \o formatTime(entry.startTime) \o <<" ", "-", "-", ">", " ">> \o formatTime(entry.endTime) \o <<"\n">>
        \o entry.text \o <<"\n">>

\* blocks.join('\n')
RECURSIVE JoinWithNewline(_)
JoinWithNewline(blocks) ==
    IF blocks = <<>> THEN <<>>
    ELSE IF Len(blocks) = 1 THEN blocks[1]
    ELSE blocks[1] \o <<"\n">> \o JoinWithNewline(Tail(blocks))

convertToSRT(entries) == JoinWithNewline([i \in 1..Len(entries) |-> SrtBlock(entries[i])])

-----------------------------------------------------------------------------
(* useSubtitleHistory *)

\* A handler's return value: undo and redo return a snapshot or null, and
\* throw when JSON.parse is handed the serialisation of a missing snapshot.
NoValue == [kind |-> "void", val |-> <<>>]

Null == [kind |-> "null", val |-> <<>>]

Thrown == [kind |-> "throw", val |-> <<>>]

Value(v) == [kind |-> "value", val |-> v]

\* JSON.stringify(a) === JSON.stringify(b) on arrays of entries whose fields are
\* a number and three strings: equal serialisations are equal values.
JSONEqual(a, b) == a = b

canUndo == historyPointer > 0

canRedo == historyPointer < Len(history) - 1

\* mutant: no duplicate check
MutNeverDuplicate(closureHistory, closurePointer, newState) == FALSE

\* the duplicate check of pushToHistory, on the history and pointer the
\* callback closed over; a pointer past the end reads undefined, whose
\* serialisation equals no string
IsDuplicatePush(closureHistory, closurePointer, newState) ==
    /\ closurePointer >= 0
    /\ Len(closureHistory) > 0
    /\ closurePointer + 1 <= Len(closureHistory)
    /\ JSONEqual(closureHistory[closurePointer + 1], newState)

\* mutants of the updaters: no trimming at the cap; the newest snapshot
\* dropped at the cap instead of the oldest; the future kept on a push
MutPushNoShift(prev, closurePointer, stateClone) == Slice(prev, 0, closurePointer + 1) \o <<stateClone>>

MutPushDropNewest(prev, closurePointer, stateClone) ==
    LET newHistory == Slice(prev, 0, closurePointer + 1) \o <<stateClone>> IN
    IF Len(newHistory) > MAX_HISTORY THEN SubSeq(newHistory, 1, MAX_HISTORY) ELSE newHistory

MutPushKeepFuture(prev, closurePointer, stateClone) ==
    LET newHistory == prev \o <<stateClone>> IN
    IF Len(newHistory) > MAX_HISTORY THEN Tail(newHistory) ELSE newHistory

\* mutant: at the cap the second oldest snapshot is dropped, the oldest kept
MutPushDropSecond(prev, closurePointer, stateClone) ==
    LET newHistory == Slice(prev, 0, closurePointer + 1) \o <<stateClone>> IN
    IF Len(newHistory) > MAX_HISTORY
    THEN <<newHistory[1]>> \o SubSeq(newHistory, 3, Len(newHistory))
    ELSE newHistory

\* the updater handed to setHistory: it slices the current history (prev) at
\* the pointer the callback closed over
PushHistoryUpdater(prev, closurePointer, stateClone) ==
    LET newHistory == Slice(prev, 0, closurePointer + 1) \o <<stateClone>> IN
    IF Len(newHistory) > MAX_HISTORY THEN Tail(newHistory) ELSE newHistory

\* mutant: the pointer is not clamped to the last slot
MutPointerNoClamp(prev) == prev + 1

\* the updater handed to setHistoryPointer
PushPointerUpdater(prev) == Min(prev + 1, MAX_HISTORY - 1)

\* history after pushToHistory(newState)
HistoryAfterPush(closureHistory, closurePointer, prev, newState) ==
    IF IsDuplicatePush(closureHistory, closurePointer, newState) THEN prev
    ELSE PushHistoryUpdater(prev, closurePointer, newState)

\* historyPointer after pushToHistory(newState)
PointerAfterPush(closureHistory, closurePointer, prev, newState) ==
    IF IsDuplicatePush(closureHistory, closurePointer, newState) THEN prev
    ELSE PushPointerUpdater(prev)

\* undo(): its guard, what it returns and the pointer it sets
UndoGuard(h, p) == p > 0

\* mutant: the previous snapshot is not the one returned
MutUndoReturnCurrent(h, p) ==
    IF ~UndoGuard(h, p) THEN Null
    ELSE IF p + 1 > Len(h) THEN Thrown
    ELSE Value(h[p + 1])

UndoReturn(h, p) ==
    IF ~UndoGuard(h, p) THEN Null
    ELSE IF p > Len(h) THEN Thrown
    ELSE Value(h[p])

\* mutant: the pointer moves even when undo returns null
MutUndoPointerAlways(h, p) == IF p >= 0 THEN p - 1 ELSE p

UndoPointer(h, p) == IF UndoReturn(h, p).kind = "value" THEN p - 1 ELSE p

\* redo()
RedoGuard(h, p) == p < Len(h) - 1

RedoReturn(h, p) ==
    IF ~RedoGuard(h, p) THEN Null
    ELSE Value(h[p + 2])

RedoPointer(h, p) == IF RedoReturn(h, p).kind = "value" THEN p + 1 ELSE p

\* EditorToolbar: disabled={historyPointer <= 0} and
\* disabled={historyPointer >= historyLength - 1}
UndoButtonDisabled(p, historyLength) == p <= 0

RedoButtonDisabled(p, historyLength) == p >= historyLength - 1

-----------------------------------------------------------------------------
(* The states the hook's unit tests push *)

Entry(i, s, e, t) == [index |-> i, startTime |-> s, endTime |-> e, text |-> t]

state1 == <<Entry(1, <<"0", "0", ":", "0", "0">>, <<"0", "0", ":", "0", "1">>, <<"1">>)>>

state2 == <<Entry(1, <<"0", "0", ":", "0", "0">>, <<"0", "0", ":", "0", "1">>, <<"2">>)>>

state3 == <<Entry(1, <<"0", "0", ":", "0", "0">>, <<"0", "0", ":", "0", "1">>, <<"3">>)>>

TestStates == {state1, state2, state3}

NextTestState(s) == IF s = state1 THEN state2 ELSE IF s = state2 THEN state3 ELSE state1

\* the states a test may push next (see FreeLen)
PushInputs ==
    IF Len(history) < FreeLen \/ historyPointer < 0 THEN TestStates
    ELSE {history[historyPointer + 1], NextTestState(history[historyPointer + 1])}

-----------------------------------------------------------------------------
(* Initial state: every hook as useState constructs it *)

NoFocus == [row |-> -1, field |-> "none"]

NoArg == [none |-> TRUE]

\* the snapshot at the pointer, when there is one
TipOf(h, p) == IF p >= 0 /\ p + 1 <= Len(h) THEN Value(h[p + 1]) ELSE Null

\* the record of a handler run: its name, argument and return value, the
\* handler that ran before it, the state it started from, and the list that
\* was displayed when the input that has the focus received it
Ran(op, arg, ret) ==
    [op |-> op, arg |-> arg, ret |-> ret, prev |-> last.op,
     pointer0 |-> historyPointer, length0 |-> Len(history),
     tip0 |-> TipOf(history, historyPointer), subtitles0 |-> subtitles,
     edit0 |-> last.edit0]

Init ==
    /\ history = <<>>
    /\ historyPointer = -1
    /\ subtitles = <<>>
    /\ selectedIndices = <<>>
    /\ lastSelectedIndex = -1
    /\ focusedIndex = -1
    /\ focus = NoFocus
    /\ file = 0
    /\ isProcessing = FALSE
    /\ error = ""
    /\ pending = {}
    /\ audioUrl = 0
    /\ duration = 0
    /\ range = <<0, 0>>
    /\ loadingAudio = {}
    /\ steps = 0
    /\ last = [op |-> "init", arg |-> NoArg, ret |-> NoValue, prev |-> "none",
               pointer0 |-> -1, length0 |-> 0, tip0 |-> Null, subtitles0 |-> <<>>,
               edit0 |-> <<>>]

-----------------------------------------------------------------------------
(* useSubtitleActions: the list operations *)

\* mutant: the index fields are left as they were
MutNoReindex(list) == list

\* .map((sub, idx) => ({ ...sub, index: idx + 1 }))
Reindex(list) == [i \in 1..Len(list) |-> [list[i] EXCEPT !.index = i]]

\* { ...entry, [field]: value }
SetField(entry, field, value) ==
    CASE field = "startTime" -> [entry EXCEPT !.startTime = value]
      [] field = "endTime" -> [entry EXCEPT !.endTime = value]
      [] field = "text" -> [entry EXCEPT !.text = value]

\* mutant: the cascade onto the neighbour ignores which time field was edited
MutChangeCascadesBothWays(prev, index, field, value) ==
    LET updated == [prev EXCEPT ![index + 1] = SetField(@, field, value)] IN
    IF validateTimeFormat(value)
    THEN IF index < Len(updated) - 1
         THEN [updated EXCEPT ![index + 2].startTime = value]
         ELSE IF index > 0
              THEN [updated EXCEPT ![index].endTime = value]
              ELSE updated
    ELSE updated

\* the updater handleSubtitleChange hands to setSubtitles
SubtitleChangeUpdater(prev, index, field, value) ==
    LET updated == [prev EXCEPT ![index + 1] = SetField(@, field, value)] IN
    IF validateTimeFormat(value)
    THEN IF field = "endTime" /\ index < Len(updated) - 1
         THEN [updated EXCEPT ![index + 2].startTime = value]
         ELSE IF field = "startTime" /\ index > 0
              THEN [updated EXCEPT ![index].endTime = value]
              ELSE updated
    ELSE updated

\* mutant: the last segment is the one removed
MutDeleteLast(subs, indexToDelete) ==
    IF indexToDelete + 1 \in 1..Len(subs)
    THEN Reindex(SubSeq(subs, 1, Len(subs) - 1))
    ELSE Reindex(subs)

\* subtitles.filter((_, idx) => idx !== indexToDelete), reindexed
DeleteUpdated(subs, indexToDelete) ==
    IF indexToDelete + 1 \in 1..Len(subs)
    THEN Reindex([i \in 1..(Len(subs) - 1) |-> IF i <= indexToDelete THEN subs[i] ELSE subs[i + 1]])
    ELSE Reindex(subs)

\* mutant: the positions after the deleted one are not moved
MutDeleteSelectionNoShift(prev, indexToDelete) == SelectSeq(prev, LAMBDA i : i # indexToDelete)

\* prev.filter(i => i !== indexToDelete).map(i => i > indexToDelete ? i - 1 : i)
DeleteSelection(prev, indexToDelete) ==
    LET kept == SelectSeq(prev, LAMBDA i : i # indexToDelete) IN
    [j \in 1..Len(kept) |-> IF kept[j] > indexToDelete THEN kept[j] - 1 ELSE kept[j]]

\* the guard of handleSplitSegment: true when the split is refused
SplitRefused(subs, indexToSplit, cursorPosition) ==
    \/ indexToSplit + 1 \notin 1..Len(subs)
    \/ cursorPosition <= 0
    \/ cursorPosition >= Len(subs[indexToSplit + 1].text)

\* mutant: a cursor at the end of the text is let through
MutSplitProceedsAtEnd(subs, indexToSplit, cursorPosition) ==
    /\ indexToSplit + 1 \in 1..Len(subs)
    /\ cursorPosition > 0
    /\ cursorPosition <= Len(subs[indexToSplit + 1].text)

\* does a press of the split button, or Ctrl+Enter, split the row: the
\* cursor check of SubtitleRow lets the call through and the guard of
\* handleSplitSegment does not return
SplitProceeds(subs, indexToSplit, cursorPosition) ==
    /\ indexToSplit + 1 \in 1..Len(subs)
    /\ cursorPosition > 0
    /\ cursorPosition < Len(subs[indexToSplit + 1].text)
    /\ ~SplitRefused(subs, indexToSplit, cursorPosition)

\* the time at which handleSplitSegment cuts: start + duration * ratio in
\* double arithmetic; the duration is negative when the segment ends before
\* it starts
SplitTime(segment, cursorPosition) ==
    WithValue(<<timeToSecondsNumber(segment.startTime), timeToSecondsNumber(segment.endTime),
                NumberDividedBy(NumberOf(cursorPosition), Len(segment.text))>>, LAMBDA v :
        LET startSeconds == v[1]
            endSeconds == v[2]
            splitRatio == v[3]
            negative == BigLess(endSeconds, startSeconds)
            totalDuration == IF negative THEN NumberMinus(startSeconds, endSeconds)
                             ELSE NumberMinus(endSeconds, startSeconds)
            product == NumberTimes(totalDuration, splitRatio)
            splitSeconds == IF negative THEN NumberMinus(startSeconds, product)
                            ELSE NumberPlus(startSeconds, product)
        IN formatSecondsToMMSS(splitSeconds))

\* text || '...'
OrDots(text) == IF text = <<>> THEN <<".", ".", ".">> ELSE text

\* mutant: the right half starts where the segment started
MutSplitRightKeepsStart(subs, indexToSplit, cursorPosition) ==
    LET segment == subs[indexToSplit + 1]
        leftText == Trim(Slice(segment.text, 0, cursorPosition))
        rightText == Trim(Slice(segment.text, cursorPosition, Len(segment.text)))
        splitTime == SplitTime(segment, cursorPosition)
        leftSegment == Entry(segment.index, segment.startTime, splitTime, OrDots(leftText))
        rightSegment == Entry(segment.index + 1, segment.startTime, segment.endTime, OrDots(rightText))
    IN Reindex(Slice(subs, 0, indexToSplit) \o <<leftSegment, rightSegment>>
                 \o Slice(subs, indexToSplit + 1, Len(subs)))

\* the list handleSplitSegment builds for an accepted split
SplitReindexed(subs, indexToSplit, cursorPosition) ==
    LET segment == subs[indexToSplit + 1]
        leftText == Trim(Slice(segment.text, 0, cursorPosition))
        rightText == Trim(Slice(segment.text, cursorPosition, Len(segment.text)))
    IN WithValue(SplitTime(segment, cursorPosition), LAMBDA splitTime :
        LET leftSegment == Entry(segment.index, segment.startTime, splitTime, OrDots(leftText))
            rightSegment == Entry(segment.index + 1, splitTime, segment.endTime, OrDots(rightText))
        IN WithValue(Slice(subs, 0, indexToSplit) \o <<leftSegment, rightSegment>>
                       \o Slice(subs, indexToSplit + 1, Len(subs)), Reindex))

\* prev.map(i => i > indexToSplit ? i + 1 : i)
SplitSelection(prev, indexToSplit) ==
    [j \in 1..Len(prev) |-> IF prev[j] > indexToSplit THEN prev[j] + 1 ELSE prev[j]]

\* [...a].sort((a, b) => a - b)
RECURSIVE SortNumbers(_)
SortNumbers(a) ==
    IF a = <<>> THEN <<>>
    ELSE LET k == CHOOSE i \in 1..Len(a) : \A j \in 1..Len(a) : a[i] <= a[j]
         IN <<a[k]>> \o SortNumbers(SubSeq(a, 1, k - 1) \o SubSeq(a, k + 1, Len(a)))

\* prev.includes(index)
IncludesNumber(a, x) == \E j \in 1..Len(a) : a[j] = x

\* mutant: a single selected row counts as consecutive
MutConsecutiveFromOne(sel) ==
    /\ Len(sel) >= 1
    /\ LET sorted == SortNumbers(sel) IN \A i \in 1..(Len(sorted) - 1) : sorted[i + 1] = sorted[i] + 1

\* the useMemo isSelectionConsecutive
IsSelectionConsecutive(sel) ==
    /\ Len(sel) >= 2
    /\ LET sorted == SortNumbers(sel) IN \A i \in 1..(Len(sorted) - 1) : sorted[i + 1] = sorted[i] + 1

isSelectionConsecutive == IsSelectionConsecutive(selectedIndices)

\* mutant: the range of a Shift+Click stops short of its greater end
MutRangeExcludesEnd(prev, lastSelected, index, shiftKey) ==
    IF shiftKey /\ lastSelected # -1 /\ lastSelected # index
    THEN LET start == Min(lastSelected, index)
             end == Max(lastSelected, index)
         IN [j \in 1..(end - start) |-> start + j - 1]
    ELSE IF IncludesNumber(prev, index)
         THEN SelectSeq(prev, LAMBDA i : i # index)
         ELSE SortNumbers(prev \o <<index>>)

\* handleToggleSelect: the selection it sets
ToggleSelection(prev, lastSelected, index, shiftKey) ==
    IF shiftKey /\ lastSelected # -1 /\ lastSelected # index
    THEN LET start == Min(lastSelected, index)
             end == Max(lastSelected, index)
         IN [j \in 1..(end - start + 1) |-> start + j - 1]
    ELSE IF IncludesNumber(prev, index)
         THEN SelectSeq(prev, LAMBDA i : i # index)
         ELSE SortNumbers(prev \o <<index>>)

\* handleToggleSelect: the anchor it sets
ToggleAnchor(lastSelected, index, shiftKey) ==
    IF shiftKey /\ lastSelected # -1 /\ lastSelected # index THEN lastSelected ELSE index

\* texts.join(' ')
RECURSIVE JoinWithSpace(_)
JoinWithSpace(texts) ==
    IF texts = <<>> THEN <<>>
    ELSE IF Len(texts) = 1 THEN texts[1]
    ELSE texts[1] \o <<" ">> \o JoinWithSpace(Tail(texts))

\* handleMergeSelected reads subtitles[i].text for every selected i: a
\* selected position without a segment makes it throw a TypeError
MergeThrows(subs, sel) == \E j \in 1..Len(sel) : sel[j] + 1 \notin 1..Len(subs)

\* mutant: the merged segment ends where the first selected segment ends
MutMergeKeepsFirstEnd(subs, sel) ==
    LET sorted == SortNumbers(sel)
        firstIdx == sorted[1]
        lastIdx == sorted[Len(sorted)]
        mergedText == JoinWithSpace([j \in 1..Len(sorted) |-> subs[sorted[j] + 1].text])
        merged == Entry(firstIdx + 1, subs[firstIdx + 1].startTime, subs[firstIdx + 1].endTime, mergedText)
    IN Reindex(Slice(subs, 0, firstIdx) \o <<merged>> \o Slice(subs, lastIdx + 1, Len(subs)))

\* the list handleMergeSelected builds for a consecutive selection
MergeReindexed(subs, sel) ==
    LET sorted == SortNumbers(sel)
        firstIdx == sorted[1]
        lastIdx == sorted[Len(sorted)]
        mergedText == JoinWithSpace([j \in 1..Len(sorted) |-> subs[sorted[j] + 1].text])
        merged == Entry(firstIdx + 1, subs[firstIdx + 1].startTime, subs[lastIdx + 1].endTime, mergedText)
    IN Reindex(Slice(subs, 0, firstIdx) \o <<merged>> \o Slice(subs, lastIdx + 1, Len(subs)))

-----------------------------------------------------------------------------
(* The hook driven as its unit tests drive it: one call per act(), so each *)
(* callback closes over the state the previous call left.                  *)

pushToHistory(newState) ==
    /\ history' = HistoryAfterPush(history, historyPointer, history, newState)
    /\ historyPointer' = PointerAfterPush(history, historyPointer, historyPointer, newState)
    /\ last' = Ran("pushToHistory", [newState |-> newState], NoValue)
    /\ UNCHANGED appVars

undo ==
    /\ historyPointer' = UndoPointer(history, historyPointer)
    /\ last' = Ran("undo", NoArg, UndoReturn(history, historyPointer))
    /\ UNCHANGED <<history, appVars>>

redo ==
    /\ historyPointer' = RedoPointer(history, historyPointer)
    /\ last' = Ran("redo", NoArg, RedoReturn(history, historyPointer))
    /\ UNCHANGED <<history, appVars>>

ResetHistoryValue == <<>>

\* mutant: the pointer is reset to the first slot
MutResetPointerZero == -1 + 1

ResetPointerValue == -1

resetHistory ==
    /\ history' = ResetHistoryValue
    /\ historyPointer' = ResetPointerValue
    /\ last' = Ran("resetHistory", NoArg, NoValue)
    /\ UNCHANGED appVars

PushSome == \E newState \in PushInputs : pushToHistory(newState)

NextHistory == PushSome \/ undo \/ redo \/ resetHistory

SpecHistory == Init /\ [][NextHistory]_vars

-----------------------------------------------------------------------------
(* The application: App wires the hooks to the components.  Every event    *)
(* handler runs against the render that precedes it, so the callbacks it   *)
(* calls close over the current state; the continuation of a transcription *)
(* request runs against the render in which the request was started.       *)

Files == {1, 2}

Fields == {"startTime", "endTime", "text"}

\* what the transcription service may return for a file: a list of entries
TranscriptionResult ==
    <<Entry(1, <<"0", ":", "0", "0", ".", "0", "0", "0">>, <<"0", ":", "0", "2", ".", "0", "0", "0">>, <<"a", " ", "b">>),
      Entry(2, <<"0", ":", "0", "2", ".", "0", "0", "0">>, <<"0", ":", "0", "4", ".", "0", "0", "0">>, <<"c">>),
      Entry(3, <<"0", ":", "0", "4", ".", "0", "0", "0">>, <<"0", ":", "0", "6", ".", "0", "0", "0">>, <<"d">>)>>

\* what it may return when the file is transcribed again
SecondTranscriptionResult ==
    <<Entry(1, <<"0", ":", "0", "1", ".", "0", "0", "0">>, <<"0", ":", "0", "5", ".", "0", "0", "0">>, <<"e">>)>>

TranscriptionResults == {TranscriptionResult, SecondTranscriptionResult}

Outcomes == {"subtitles", "empty", "failed"}

\* what the user types into the focused input
TypedValues ==
    {<<"0", ":", "0", "1", ".", "5">>,
     <<"0", ":", "0", "3", ".", "0", "0", "0">>,
     <<"x", " ", "y">>,
     <<" ", "z">>}

\* the focused row is unmounted when the list no longer has it
FocusAfter(newSubtitles) == IF focus.row < Len(newSubtitles) THEN focus ELSE NoFocus

Step == steps < MaxSteps /\ steps' = steps + 1

\* the continuation of a request in flight is not started by the user: it runs
\* whenever the request resolves, and is counted while the counter has room
Continue == steps' = IF steps < MaxSteps THEN steps + 1 ELSE steps

\* useFileHandler.handleFileUpload with App's reset callback; the upload
\* input is rendered only while no file is loaded
onFileUploadWrapper(uploadedFile) ==
    /\ Step
    /\ file = 0
    /\ focus = NoFocus
    /\ file' = uploadedFile
    /\ subtitles' = <<>>
    /\ selectedIndices' = <<>>
    /\ history' = ResetHistoryValue
    /\ historyPointer' = ResetPointerValue
    /\ error' = ""
    /\ audioUrl' = uploadedFile
    /\ loadingAudio' = loadingAudio \cup {uploadedFile}
    /\ last' = Ran("onFileUploadWrapper", [file |-> uploadedFile], NoValue)
    /\ UNCHANGED <<lastSelectedIndex, focusedIndex, focus, isProcessing, pending, duration, range>>

\* mutant: the removal leaves the range as it was
MutRemoveKeepsRange == range

\* useFileHandler.removeFile: setRange([0, 0])
RemovedRange == <<0, 0>>

\* useFileHandler.removeFile with App's reset callback; the last handler
\* record keeps the selection and the range that the removal discards
onRemoveFile ==
    /\ Step
    /\ file # 0
    /\ focus = NoFocus
    /\ file' = 0
    /\ subtitles' = <<>>
    /\ selectedIndices' = <<>>
    /\ history' = ResetHistoryValue
    /\ historyPointer' = ResetPointerValue
    /\ error' = ""
    /\ audioUrl' = 0
    /\ duration' = 0
    /\ range' = RemovedRange
    /\ last' = Ran("onRemoveFile", [selected0 |-> selectedIndices, range0 |-> range], NoValue)
    /\ UNCHANGED <<lastSelectedIndex, focusedIndex, focus, isProcessing, pending, loadingAudio>>

\* what an Audio element may report as the length of its file, in
\* milliseconds: under a second, a fraction of a second past the half minute,
\* over a minute
Durations == {500, 30500, 61000}

\* the range that is preset when the metadata loads
PresetRange(audioDuration) == <<0, Min(audioDuration, 60000)>>

\* audio.onloadedmetadata of handleFileUpload: nothing cancels it when the
\* file is removed
onloadedmetadata(audio, audioDuration) ==
    /\ Step
    /\ audio \in loadingAudio
    /\ loadingAudio' = loadingAudio \ {audio}
    /\ duration' = audioDuration
    /\ range' = PresetRange(audioDuration)
    /\ last' = Ran("onloadedmetadata", [audio |-> audio, duration |-> audioDuration], NoValue)
    /\ UNCHANGED <<history, historyPointer, subtitles, selectedIndices, lastSelectedIndex,
                   focusedIndex, focus, file, isProcessing, error, pending, audioUrl>>

\* A request in flight is a record of pending: a transcription keeps the file
\* and the pushToHistory of the render that started it (the history and the
\* pointer it closed over); a translation keeps the file, the list it was
\* handed and the languages still to do.

\* mutant: the Transcribe button is never disabled
MutTranscribeNeverDisabled(processing) == processing /\ ~processing

\* UploadSection: disabled={isProcessing} of the Transcribe/Regenerate button
TranscribeButtonDisabled(processing) == processing

\* useTranscribe.handleTranscribe up to the request: the button is disabled
\* while isProcessing; the request keeps the pushToHistory of this render
handleTranscribe ==
    /\ Step
    /\ UNCHANGED playerVars
    /\ file # 0
    /\ ~TranscribeButtonDisabled(isProcessing)
    /\ focus = NoFocus
    /\ isProcessing' = TRUE
    /\ error' = ""
    /\ pending' = pending \cup {[kind |-> "transcribe", file |-> file, closureHistory |-> history,
                                 closurePointer |-> historyPointer, source |-> <<>>, languages |-> <<>>]}
    /\ last' = Ran("handleTranscribe", NoArg, NoValue)
    /\ UNCHANGED <<history, historyPointer, subtitles, selectedIndices, lastSelectedIndex,
                   focusedIndex, focus, file>>

\* reader.onload of handleTranscribe, once transcribeAudio has settled
transcribeSettled(request, outcome, result) ==
    /\ Continue
    /\ UNCHANGED playerVars
    /\ request \in pending
    /\ request.kind = "transcribe"
    /\ pending' = pending \ {request}
    /\ isProcessing' = FALSE
    /\ IF outcome = "subtitles"
       THEN /\ subtitles' = result
            /\ history' = HistoryAfterPush(request.closureHistory, request.closurePointer, history, result)
            /\ historyPointer' = PointerAfterPush(request.closureHistory, request.closurePointer, historyPointer, result)
            /\ error' = error
       ELSE /\ error' = IF outcome = "empty"
                        THEN "Model returned no subtitles. Try a segment with clearer speech."
                        ELSE "Transcription service failed."
            /\ UNCHANGED <<subtitles, history, historyPointer>>
    /\ focus' = FocusAfter(subtitles')
    /\ last' = Ran("transcribeSettled", [outcome |-> outcome, result |-> IF outcome = "subtitles" THEN result ELSE <<>>], NoValue)
    /\ UNCHANGED <<selectedIndices, lastSelectedIndex, focusedIndex, file>>

\* SubtitleRow: an input of a row receives the focus (onFocus)
onFocus(row, field) ==
    /\ Step
    /\ UNCHANGED playerVars
    /\ focus = NoFocus
    /\ row < Len(subtitles)
    /\ focus' = [row |-> row, field |-> field]
    /\ focusedIndex' = row
    /\ last' = [Ran("onFocus", [row |-> row, field |-> field], NoValue) EXCEPT !.edit0 = subtitles]
    /\ UNCHANGED <<history, historyPointer, subtitles, selectedIndices, lastSelectedIndex,
                   file, isProcessing, error, pending>>

\* useSubtitleActions.handleSubtitleChange, from the onChange of the focused input
handleSubtitleChange(index, field, value) ==
    /\ Step
    /\ UNCHANGED playerVars
    /\ focus = [row |-> index, field |-> field]
    /\ index < Len(subtitles)
    /\ subtitles' = SubtitleChangeUpdater(subtitles, index, field, value)
    /\ last' = Ran("handleSubtitleChange", [index |-> index, field |-> field, value |-> value], NoValue)
    /\ UNCHANGED <<history, historyPointer, selectedIndices, lastSelectedIndex, focusedIndex,
                   focus, file, isProcessing, error, pending>>

\* App.onBlurWrapper: does it push the list of the render it closed over
BlurWrapperPushes(closureHistory, closurePointer, closureSubtitles) ==
    /\ closurePointer >= 0
    /\ TipOf(closureHistory, closurePointer) # Value(closureSubtitles)

\* the focused input loses the focus: SubtitleRow.handleTimeBlur for a time
\* input (auto-completion through onChange, then onBlur), onBlur alone for
\* the text; onBlur is App.onBlurWrapper of the render before the event
onBlur ==
    /\ Step
    /\ UNCHANGED playerVars
    /\ focus # NoFocus
    /\ focus.row < Len(subtitles)
    /\ LET value == IF focus.field = "startTime" THEN subtitles[focus.row + 1].startTime
                    ELSE subtitles[focus.row + 1].endTime
           completed == autoCompleteTime(value)
       IN subtitles' = IF focus.field # "text" /\ completed # value
                       THEN SubtitleChangeUpdater(subtitles, focus.row, focus.field, completed)
                       ELSE subtitles
    /\ IF BlurWrapperPushes(history, historyPointer, subtitles)
       THEN /\ history' = HistoryAfterPush(history, historyPointer, history, subtitles)
            /\ historyPointer' = PointerAfterPush(history, historyPointer, historyPointer, subtitles)
       ELSE UNCHANGED <<history, historyPointer>>
    /\ focus' = NoFocus
    /\ last' = Ran("onBlur", [row |-> focus.row, field |-> focus.field], NoValue)
    /\ UNCHANGED <<selectedIndices, lastSelectedIndex, focusedIndex, file, isProcessing,
                   error, pending>>

\* useSubtitleActions.handleDeleteSubtitle, from the delete button of a row
handleDeleteSubtitle(indexToDelete) ==
    /\ Step
    /\ UNCHANGED playerVars
    /\ focus = NoFocus
    /\ indexToDelete < Len(subtitles)
    /\ LET updated == DeleteUpdated(subtitles, indexToDelete) IN
        /\ subtitles' = updated
        /\ history' = HistoryAfterPush(history, historyPointer, history, updated)
        /\ historyPointer' = PointerAfterPush(history, historyPointer, historyPointer, updated)
    /\ selectedIndices' = DeleteSelection(selectedIndices, indexToDelete)
    /\ last' = Ran("handleDeleteSubtitle", [index |-> indexToDelete], NoValue)
    /\ UNCHANGED <<lastSelectedIndex, focusedIndex, focus, file, isProcessing, error, pending>>

\* the split button of the row last focused, or Ctrl+Enter in the focused text:
\* SubtitleRow checks the cursor, then useSubtitleActions.handleSplitSegment
handleSplitSegment(indexToSplit, cursorPosition) ==
    /\ Step
    /\ UNCHANGED playerVars
    /\ indexToSplit < Len(subtitles)
    /\ \/ focus = NoFocus /\ focusedIndex = indexToSplit
       \/ focus = [row |-> indexToSplit, field |-> "text"]
    /\ cursorPosition \in 0..Len(subtitles[indexToSplit + 1].text)
    /\ IF SplitProceeds(subtitles, indexToSplit, cursorPosition)
       THEN \E reindexed \in {SplitReindexed(subtitles, indexToSplit, cursorPosition)} :
            /\ subtitles' = reindexed
            /\ history' = HistoryAfterPush(history, historyPointer, history, reindexed)
            /\ historyPointer' = PointerAfterPush(history, historyPointer, historyPointer, reindexed)
            /\ selectedIndices' = SplitSelection(selectedIndices, indexToSplit)
       ELSE UNCHANGED <<subtitles, history, historyPointer, selectedIndices>>
    /\ last' = Ran("handleSplitSegment", [index |-> indexToSplit, cursor |-> cursorPosition], NoValue)
    /\ UNCHANGED <<lastSelectedIndex, focusedIndex, focus, file, isProcessing, error, pending>>

\* useSubtitleActions.handleToggleSelect, from the checkbox of a row
handleToggleSelect(index, shiftKey) ==
    /\ Step
    /\ UNCHANGED playerVars
    /\ focus = NoFocus
    /\ index < Len(subtitles)
    /\ selectedIndices' = ToggleSelection(selectedIndices, lastSelectedIndex, index, shiftKey)
    /\ lastSelectedIndex' = ToggleAnchor(lastSelectedIndex, index, shiftKey)
    /\ last' = Ran("handleToggleSelect", [index |-> index, shiftKey |-> shiftKey], NoValue)
    /\ UNCHANGED <<history, historyPointer, subtitles, focusedIndex, focus, file,
                   isProcessing, error, pending>>

\* EditorToolbar: the Merge button is rendered for two or more selected rows
\* and disabled unless they are consecutive
MergeButtonRendered(selectedCount) == selectedCount >= 2

MergeButtonDisabled(consecutive) == ~consecutive

\* useSubtitleActions.handleMergeSelected as the hook exports it: it returns
\* at once unless the selection is consecutive
handleMergeSelected ==
    /\ Step
    /\ UNCHANGED playerVars
    /\ focus = NoFocus
    /\ IF ~isSelectionConsecutive \/ MergeThrows(subtitles, selectedIndices)
       THEN /\ UNCHANGED <<subtitles, history, historyPointer, selectedIndices>>
            /\ last' = Ran("handleMergeSelected", NoArg, IF isSelectionConsecutive THEN Thrown ELSE NoValue)
       ELSE LET reindexed == MergeReindexed(subtitles, selectedIndices) IN
            /\ subtitles' = reindexed
            /\ history' = HistoryAfterPush(history, historyPointer, history, reindexed)
            /\ historyPointer' = PointerAfterPush(history, historyPointer, historyPointer, reindexed)
            /\ selectedIndices' = <<>>
            /\ last' = Ran("handleMergeSelected", NoArg, NoValue)
    /\ UNCHANGED <<lastSelectedIndex, focusedIndex, focus, file, isProcessing, error, pending>>

\* App.performUndo; event is the keydown that called it, NoArg for the button
performUndoOn(event) ==
    /\ Step
    /\ UNCHANGED playerVars
    /\ LET prev == UndoReturn(history, historyPointer) IN
        /\ historyPointer' = UndoPointer(history, historyPointer)
        /\ subtitles' = IF prev.kind = "value" THEN prev.val ELSE subtitles
        /\ last' = Ran("performUndo", event, prev)
    /\ focus' = FocusAfter(subtitles')
    /\ UNCHANGED <<history, selectedIndices, lastSelectedIndex, focusedIndex, file,
                   isProcessing, error, pending>>

\* App.performRedo; event is the keydown that called it, NoArg for the button
performRedoOn(event) ==
    /\ Step
    /\ UNCHANGED playerVars
    /\ LET next == RedoReturn(history, historyPointer) IN
        /\ historyPointer' = RedoPointer(history, historyPointer)
        /\ subtitles' = IF next.kind = "value" THEN next.val ELSE subtitles
        /\ last' = Ran("performRedo", event, next)
    /\ focus' = FocusAfter(subtitles')
    /\ UNCHANGED <<history, selectedIndices, lastSelectedIndex, focusedIndex, file,
                   isProcessing, error, pending>>

\* the Undo and Redo buttons of the toolbar
performUndo == performUndoOn(NoArg)

performRedo == performRedoOn(NoArg)

\* the key attribute of a keydown of the Z key: the letter as the modifiers
\* make it, so "Z" with Shift held; with the Command key held some platforms
\* report "z" whether Shift is held or not
KeyOfZ(metaKey, shiftKey) ==
    IF ~shiftKey THEN {"z"}
    ELSE IF metaKey THEN {"z", "Z"}
    ELSE {"Z"}

\* the keydown events of the Z key that reach the window
KeyEvents ==
    {e \in [ctrlKey : BOOLEAN, metaKey : BOOLEAN, shiftKey : BOOLEAN, key : {"z", "Z"}] :
        e.key \in KeyOfZ(e.metaKey, e.shiftKey)}

\* App's keydown listener on the window
handleKeyDown(e) ==
    IF (e.ctrlKey \/ e.metaKey) /\ e.key = "z"
    THEN IF e.shiftKey THEN performRedoOn(e) ELSE performUndoOn(e)
    ELSE /\ Step
         /\ UNCHANGED playerVars
         /\ last' = Ran("handleKeyDown", e, NoValue)
         /\ UNCHANGED <<history, historyPointer, subtitles, selectedIndices, lastSelectedIndex,
                        focusedIndex, focus, file, isProcessing, error, pending>>

KeySome == \E e \in KeyEvents : handleKeyDown(e)

Upload == \E uploadedFile \in Files : onFileUploadWrapper(uploadedFile)

Settle ==
    \E request \in pending, outcome \in Outcomes, result \in TranscriptionResults :
        transcribeSettled(request, outcome, result)

FocusSome == \E row \in 0..(Len(subtitles) - 1), field \in Fields : onFocus(row, field)

ChangeSome ==
    \E index \in 0..(Len(subtitles) - 1), field \in Fields, value \in TypedValues :
        handleSubtitleChange(index, field, value)

DeleteSome == \E indexToDelete \in 0..(Len(subtitles) - 1) : handleDeleteSubtitle(indexToDelete)

SplitSome ==
    \E indexToSplit \in 0..(Len(subtitles) - 1) :
        \E cursorPosition \in 0..Len(subtitles[indexToSplit + 1].text) :
            handleSplitSegment(indexToSplit, cursorPosition)

ToggleSome == \E index \in 0..(Len(subtitles) - 1), shiftKey \in BOOLEAN : handleToggleSelect(index, shiftKey)

Next ==
    \/ Upload
    \/ onRemoveFile
    \/ handleTranscribe
    \/ Settle
    \/ FocusSome
    \/ ChangeSome
    \/ onBlur
    \/ DeleteSome
    \/ SplitSome
    \/ ToggleSome
    \/ handleMergeSelected
    \/ performUndo
    \/ performRedo
    \/ KeySome

Spec == Init /\ [][Next]_vars

-----------------------------------------------------------------------------
(* The SRT export on its own: a file is loaded, the editor holds a list, and *)
(* the Save SRT button is pressed.                                          *)

\* the minutes of the timestamps the export is run on go up to MaxMinutes
MaxMinutes == 125

\* the seconds and milliseconds of those timestamps
SecondsAndMillis ==
    {<<"0", "0", ".", "0", "0", "0">>, <<"0", "7", ".", "0", "5", "0">>, <<"5", "9", ".", "9", "9", "9">>}

\* well-formed timestamps M:SS.mmm
ExportTimes == {NumToString(m) \o <<":">> \o sm : m \in 0..MaxMinutes, sm \in SecondsAndMillis}

\* end times: one past the hour, one on the hour, one the user left incomplete
ExportEndTimes ==
    {<<"6", "1", ":", "0", "7", ".", "0", "5", "0">>,
     <<"1", "2", "0", ":", "0", "0", ".", "0", "0", "0">>,
     <<"0", ":", "0", "1", ".", "5">>}

\* the lists the export is run on: one entry, or two
ExportLists ==
    {<<Entry(1, s, e, <<"a", " ", "b">>)>> : s \in ExportTimes, e \in ExportEndTimes}
        \cup {<<Entry(1, <<"7", "5", ":">> \o sm, e, <<"c">>), Entry(2, e, <<"9", "0", ":">> \o sm, <<"d">>)>> :
                    sm \in SecondsAndMillis, e \in ExportEndTimes}

InitExport ==
    /\ subtitles \in ExportLists
    /\ history = <<subtitles>>
    /\ historyPointer = 0
    /\ selectedIndices = <<>>
    /\ lastSelectedIndex = -1
    /\ focusedIndex = -1
    /\ focus = NoFocus
    /\ file = 1
    /\ isProcessing = FALSE
    /\ error = ""
    /\ pending = {}
    /\ audioUrl = 1
    /\ duration = 0
    /\ range = <<0, 0>>
    /\ loadingAudio = {1}
    /\ steps = 0
    /\ last = [op |-> "init", arg |-> NoArg, ret |-> NoValue, prev |-> "none",
               pointer0 |-> -1, length0 |-> 0, tip0 |-> Null, subtitles0 |-> <<>>,
               edit0 |-> <<>>]

\* useTranscribe.triggerDownload: the text of the .srt file it offers; without
\* a file it returns at once
triggerDownload(content, suffix) ==
    /\ last' = Ran("triggerDownload", [content |-> content, suffix |-> suffix],
                   IF file = 0 THEN NoValue ELSE Value(convertToSRT(content)))
    /\ UNCHANGED <<history, historyPointer, subtitles, selectedIndices, lastSelectedIndex,
                   focusedIndex, focus, file, isProcessing, error, pending>>

\* EditorToolbar: disabled={isProcessing} of the Save SRT button
SaveButtonDisabled(processing) == processing

\* EditorToolbar: disabled={isProcessing || selectedLanguagesCount === 0} of the
\* Export Translated button
ExportButtonDisabled(processing, selectedLanguagesCount) ==
    processing \/ selectedLanguagesCount = 0

\* the Save SRT button: rendered when there are subtitles, disabled while
\* processing
onSaveOriginal ==
    /\ Step
    /\ UNCHANGED playerVars
    /\ Len(subtitles) > 0
    /\ ~SaveButtonDisabled(isProcessing)
    /\ triggerDownload(subtitles, "original")

\* App: the languages selected when the application starts
SelectedLanguages == <<"English">>

\* App.toggleLanguage: selections the user can arrive at, in the order the
\* languages were ticked
LanguageSelections == {SelectedLanguages, <<"Dutch", "English">>}

\* App.getLangCode
getLangCode(langName) ==
    CASE langName = "English" -> "en"
      [] langName = "Dutch" -> "nl"
      [] langName = "German" -> "de"
      [] OTHER -> "??"

\* what the translation service may answer for a list: an array of entries of
\* the response schema, which the prompt asks to keep the indices and the
\* timestamps but which nothing checks.  The answers here: the texts
\* translated and nothing else changed; the same with the end of the first
\* entry moved; the same with the last entry missing; no entries at all.
TranslatedText(text) == <<"T">> \o text

Translated(source) == [i \in 1..Len(source) |-> [source[i] EXCEPT !.text = TranslatedText(@)]]

TranslationResponses(source) ==
    {Translated(source),
     [Translated(source) EXCEPT ![1].endTime = <<"0", ":", "0", "9", ".", "9", "9", "9">>],
     SubSeq(Translated(source), 1, Len(source) - 1),
     <<>>}

\* useTranscribe.translateAndDownloadAll up to the first request, from the
\* Export Translated button: rendered when there are subtitles, disabled
\* while processing or without a language; without a file it returns at once.
\* The request keeps a copy of the languages selected now.
translateAndDownloadAll(selectedLanguages) ==
    /\ Step
    /\ UNCHANGED playerVars
    /\ Len(subtitles) > 0
    /\ ~ExportButtonDisabled(isProcessing, Len(selectedLanguages))
    /\ IF file = 0
       THEN UNCHANGED <<isProcessing, error, pending>>
       ELSE /\ isProcessing' = TRUE
            /\ error' = ""
            /\ pending' = pending \cup {[kind |-> "translate", file |-> file, closureHistory |-> <<>>,
                                         closurePointer |-> -1, source |-> subtitles,
                                         languages |-> selectedLanguages]}
    /\ last' = Ran("translateAndDownloadAll", [selectedLanguages |-> selectedLanguages], NoValue)
    /\ UNCHANGED <<history, historyPointer, subtitles, selectedIndices, lastSelectedIndex,
                   focusedIndex, focus, file>>

\* mutant: the loop ends at the first language that fails
MutStopAtFailure(languages, answered) == IF answered THEN Tail(languages) ELSE <<>>

\* the for..of loop of translateAndDownloadAll: the languages still to do once
\* the first of them has been handled, whether it was answered or threw
LanguagesLeft(languages, answered) == Tail(languages)

\* translateAndDownloadAll from the await of translateSubtitles on: the
\* answer for the first language still to do is downloaded when it has
\* entries, a failure is reported; then the next language, or the end
translateSettled(request, answered, translated) ==
    /\ Continue
    /\ UNCHANGED playerVars
    /\ request \in pending
    /\ request.kind = "translate"
    /\ LET lang == Head(request.languages)
           rest == LanguagesLeft(request.languages, answered)
           answer == IF answered THEN Value(translated) ELSE Thrown
       IN /\ pending' = (pending \ {request}) \cup
                            (IF rest = <<>> THEN {} ELSE {[request EXCEPT !.languages = rest]})
          /\ isProcessing' = IF rest = <<>> THEN FALSE ELSE isProcessing
          /\ IF ~answered
             THEN /\ error' = "Failed to translate to " \o lang \o ". Continuing with others..."
                  /\ last' = Ran("translateSettled", [language |-> lang, answer |-> answer], Thrown)
             ELSE /\ error' = error
                  /\ last' = IF Len(translated) > 0
                             THEN Ran("triggerDownload",
                                      [content |-> translated, suffix |-> getLangCode(lang),
                                       source |-> request.source, language |-> lang, answer |-> answer],
                                      Value(convertToSRT(translated)))
                             ELSE Ran("translateSettled", [language |-> lang, answer |-> answer], NoValue)
    /\ UNCHANGED <<history, historyPointer, subtitles, selectedIndices, lastSelectedIndex,
                   focusedIndex, focus, file>>

TranslateSettle ==
    \E request \in pending :
        \E answered \in BOOLEAN, translated \in TranslationResponses(request.source) :
            translateSettled(request, answered, translated)

\* the export with the languages of the start of the application
ExportInitialSelection == translateAndDownloadAll(SelectedLanguages)

NextExport == onSaveOriginal \/ ExportInitialSelection \/ TranslateSettle

SpecExport == InitExport /\ [][NextExport]_vars

-----------------------------------------------------------------------------
(* The session with the service: a file is uploaded and removed, its        *)
(* metadata loads, it is transcribed, rows are ticked, the list is saved    *)
(* and exported.                                                            *)

\* reader.readAsDataURL of handleTranscribe ends with an error event: only
\* reader.onload is set, so no handler runs and the request is over
readFailed(request) ==
    /\ Continue
    /\ request \in pending
    /\ request.kind = "transcribe"
    /\ pending' = pending \ {request}
    /\ last' = Ran("readFailed", NoArg, NoValue)
    /\ UNCHANGED <<history, historyPointer, subtitles, selectedIndices, lastSelectedIndex,
                   focusedIndex, focus, file, isProcessing, error, playerVars>>

ReadFail == \E request \in pending : readFailed(request)

LoadMetadata ==
    \E audio \in loadingAudio, audioDuration \in Durations : onloadedmetadata(audio, audioDuration)

ExportSome == \E selectedLanguages \in LanguageSelections : translateAndDownloadAll(selectedLanguages)

NextService ==
    \/ Upload
    \/ onRemoveFile
    \/ LoadMetadata
    \/ handleTranscribe
    \/ ReadFail
    \/ Settle
    \/ ToggleSome
    \/ onSaveOriginal
    \/ ExportSome
    \/ TranslateSettle

SpecService == Init /\ [][NextService]_vars

\* every request in flight resolves: the read of the file ends and the
\* service answers or fails
SpecServiceFair ==
    /\ SpecService
    /\ WF_vars(Settle \/ ReadFail)
    /\ WF_vars(TranslateSettle)

-----------------------------------------------------------------------------
(* The audio player: the range of the transcription is moved with the two   *)
(* sliders and typed into the two range inputs.  Times are in milliseconds. *)

\* <input type="range" min="0" max={duration}>: the step is the default, 1
SliderStep == 1000

\* the values a slider can take: the multiples of the step from 0 to duration
SliderValues(audioDuration) == {SliderStep * k : k \in 0..(audioDuration \div SliderStep)}

\* the value a slider shows for value={v}: the value it can take that is
\* nearest to v, the larger one of two
SliderShown(v, audioDuration) ==
    Min(SliderStep * (audioDuration \div SliderStep),
        SliderStep * ((Max(v, 0) + SliderStep \div 2) \div SliderStep))

\* where the user moves a slider: one step down or up, to the start or to the
\* end of the track; a change event needs a value other than the one shown
SliderMoves(v, audioDuration) ==
    LET shown == SliderShown(v, audioDuration)
    IN ({shown - SliderStep, shown + SliderStep, 0, SliderStep * (audioDuration \div SliderStep)}
            \cap SliderValues(audioDuration)) \ {shown}

\* handleStartChange: Math.min(val, range[1] - 1)
StartFromSlider(val, end) == Min(val, end - 1000)

\* handleEndChange: Math.max(val, range[0] + 1)
EndFromSlider(val, start) == Max(val, start + 1000)

\* AudioPlayer.handleStartChange
handleStartChange(val) ==
    /\ Step
    /\ audioUrl # 0
    /\ val \in SliderMoves(range[1], duration)
    /\ range' = <<StartFromSlider(val, range[2]), range[2]>>
    /\ last' = Ran("handleStartChange", [val |-> val], NoValue)
    /\ UNCHANGED <<history, historyPointer, subtitles, selectedIndices, lastSelectedIndex,
                   focusedIndex, focus, file, isProcessing, error, pending, audioUrl, duration,
                   loadingAudio>>

\* AudioPlayer.handleEndChange
handleEndChange(val) ==
    /\ Step
    /\ audioUrl # 0
    /\ val \in SliderMoves(range[2], duration)
    /\ range' = <<range[1], EndFromSlider(val, range[1])>>
    /\ last' = Ran("handleEndChange", [val |-> val], NoValue)
    /\ UNCHANGED <<history, historyPointer, subtitles, selectedIndices, lastSelectedIndex,
                   focusedIndex, focus, file, isProcessing, error, pending, audioUrl, duration,
                   loadingAudio>>

\* AudioPlayer.parseTime: /^(\d+):(\d{1,2})$/ on the trimmed text, seconds
\* under 60; -1 models null
parseTime(timeStr) ==
    LET trimmed == Trim(timeStr)
        minPart == SplitHead(trimmed, ":")
        secPart == SplitRest(trimmed, ":")
    IN IF /\ Count(trimmed, ":") = 1
          /\ Len(minPart) >= 1
          /\ \A i \in 1..Len(minPart) : minPart[i] \in Digits
          /\ Len(secPart) \in 1..2
          /\ \A i \in 1..Len(secPart) : secPart[i] \in Digits
          /\ ParseInt(secPart) < 60
       THEN (ParseInt(minPart) * 60 + ParseInt(secPart)) * 1000
       ELSE -1

\* what the user types into a range input before leaving it
TypedRangeTimes ==
    {<<"0", ":", "3", "0">>, <<" ", "0", ":", "5">>, <<"1", ":", "0", "1">>,
     <<"0", ":", "6", "0">>, <<"3", "0">>}

\* handleStartInputBlur: is the typed start taken
StartInputAccepted(parsed, end, audioDuration) ==
    parsed # -1 /\ parsed >= 0 /\ parsed < end /\ parsed <= audioDuration

\* handleEndInputBlur: is the typed end taken
EndInputAccepted(parsed, start, audioDuration) ==
    parsed # -1 /\ parsed > start /\ parsed <= audioDuration

\* AudioPlayer.handleStartInputBlur: a text that is not taken is replaced by
\* the start of the range
handleStartInputBlur(startInput) ==
    /\ Step
    /\ audioUrl # 0
    /\ LET parsed == parseTime(startInput)
       IN range' = IF StartInputAccepted(parsed, range[2], duration) THEN <<parsed, range[2]>> ELSE range
    /\ last' = Ran("handleStartInputBlur", [startInput |-> startInput], NoValue)
    /\ UNCHANGED <<history, historyPointer, subtitles, selectedIndices, lastSelectedIndex,
                   focusedIndex, focus, file, isProcessing, error, pending, audioUrl, duration,
                   loadingAudio>>

\* AudioPlayer.handleEndInputBlur
handleEndInputBlur(endInput) ==
    /\ Step
    /\ audioUrl # 0
    /\ LET parsed == parseTime(endInput)
       IN range' = IF EndInputAccepted(parsed, range[1], duration) THEN <<range[1], parsed>> ELSE range
    /\ last' = Ran("handleEndInputBlur", [endInput |-> endInput], NoValue)
    /\ UNCHANGED <<history, historyPointer, subtitles, selectedIndices, lastSelectedIndex,
                   focusedIndex, focus, file, isProcessing, error, pending, audioUrl, duration,
                   loadingAudio>>

StartSlider == \E val \in SliderMoves(range[1], duration) : handleStartChange(val)

EndSlider == \E val \in SliderMoves(range[2], duration) : handleEndChange(val)

StartTyped == \E startInput \in TypedRangeTimes : handleStartInputBlur(startInput)

EndTyped == \E endInput \in TypedRangeTimes : handleEndInputBlur(endInput)

NextRange ==
    \/ Upload
    \/ LoadMetadata
    \/ onRemoveFile
    \/ StartSlider
    \/ EndSlider
    \/ StartTyped
    \/ EndTyped

SpecRange == Init /\ [][NextRange]_vars

-----------------------------------------------------------------------------
(* Properties of the history hook, checked under SpecHistory *)

\* C1: in every state reachable by pushToHistory, undo, redo and resetHistory
\* calls, the history list holds at most MAX_HISTORY (50) snapshots.
C1_HistoryCapped == Len(history) <= MAX_HISTORY

\* a push of a new state onto a history that was already full
C1_Witness ==
    /\ last.op = "pushToHistory"
    /\ last.length0 = MAX_HISTORY
    /\ last.pointer0 = MAX_HISTORY - 1
    /\ last.tip0 # Value(last.arg.newState)

\* C2: historyPointer is a valid index into history: -1 exactly when history
\* is empty, and otherwise 0 <= historyPointer <= history.length - 1.
C2_PointerValid ==
    /\ (historyPointer = -1) <=> (history = <<>>)
    /\ history # <<>> => (0 <= historyPointer /\ historyPointer <= Len(history) - 1)

\* the pointer after a push onto a full history, and after an undo
C2_Witness ==
    /\ last.op = "undo"
    /\ last.prev = "pushToHistory"
    /\ last.length0 = MAX_HISTORY
    /\ historyPointer = MAX_HISTORY - 2

\* C4: undo with historyPointer > 0 returns the snapshot at historyPointer - 1,
\* decrements historyPointer and leaves history alone; a redo right after it
\* returns the snapshot that was current before the undo and restores
\* historyPointer.
C4_UndoThenRedo ==
    [][/\ (last'.op = "undo" /\ historyPointer > 0) =>
            /\ last'.ret = Value(history[historyPointer])
            /\ historyPointer' = historyPointer - 1
            /\ history' = history
       /\ (last.op = "undo" /\ last.ret.kind = "value" /\ last'.op = "redo") =>
            /\ last'.ret = last.tip0
            /\ last'.ret.kind = "value"
            /\ historyPointer' = last.pointer0
            /\ history' = history]_vars

\* a redo that returned a snapshot right after an undo that returned one
C4_Witness ==
    /\ last.op = "redo"
    /\ last.prev = "undo"
    /\ last.ret.kind = "value"
    /\ last.ret # last.tip0

\* C5 as stated: pushToHistory after one or more undos discards every snapshot
\* after the pointer: the new history is the old snapshots 0..historyPointer
\* followed by the pushed state, historyPointer points at the pushed state and
\* canRedo is false.
C5_Original ==
    [][(last.op = "undo" /\ last.ret.kind = "value" /\ last'.op = "pushToHistory") =>
            /\ history' = Slice(history, 0, historyPointer + 1) \o <<last'.arg.newState>>
            /\ historyPointer' = Len(history') - 1
            /\ history'[historyPointer' + 1] = last'.arg.newState
            /\ ~canRedo']_vars

\* C5 amended: the same, for a pushed state that differs from the snapshot at
\* historyPointer (a push of the current snapshot is a no-op and keeps the
\* future).
C5_PushDiscardsFuture ==
    [][(/\ last.op = "undo"
        /\ last.ret.kind = "value"
        /\ last'.op = "pushToHistory"
        /\ TipOf(history, historyPointer) # Value(last'.arg.newState)) =>
            /\ history' = Slice(history, 0, historyPointer + 1) \o <<last'.arg.newState>>
            /\ historyPointer' = Len(history') - 1
            /\ history'[historyPointer' + 1] = last'.arg.newState
            /\ ~canRedo']_vars

\* a push of a new state right after two undos, which drops two snapshots
C5_Witness ==
    /\ last.op = "pushToHistory"
    /\ last.prev = "undo"
    /\ last.tip0 # Value(last.arg.newState)
    /\ last.length0 = last.pointer0 + 3
    /\ Len(history) = last.length0 - 1

\* C6: pushToHistory of a state equal to the snapshot at historyPointer is a
\* no-op: history and historyPointer are unchanged.
C6_DuplicatePushNoOp ==
    [][(/\ last'.op = "pushToHistory"
        /\ TipOf(history, historyPointer) = Value(last'.arg.newState)) =>
            /\ history' = history
            /\ historyPointer' = historyPointer]_vars

\* a push of the current snapshot while a redo is available
C6_Witness ==
    /\ last.op = "pushToHistory"
    /\ last.tip0 = Value(last.arg.newState)
    /\ last.length0 > last.pointer0 + 1

\* C7: after pushToHistory(s) with s different from the snapshot at
\* historyPointer, or with an empty history, the last snapshot of history is s
\* and historyPointer is the last index.
C7_PushAppends ==
    (/\ last.op = "pushToHistory"
     /\ (last.length0 = 0 \/ last.tip0 # Value(last.arg.newState))) =>
        /\ history # <<>>
        /\ historyPointer = Len(history) - 1
        /\ history[Len(history)] = last.arg.newState

\* a push of a new state onto a full history
C7_Witness ==
    /\ last.op = "pushToHistory"
    /\ last.tip0 # Value(last.arg.newState)
    /\ last.length0 = MAX_HISTORY
    /\ last.pointer0 = MAX_HISTORY - 1
    /\ Len(history) = MAX_HISTORY

\* C8: a freshly created history, and the history after resetHistory, is empty
\* with historyPointer = -1, canUndo = false and canRedo = false.
C8_FreshOrResetIsEmpty ==
    last.op \in {"init", "resetHistory"} =>
        /\ history = <<>>
        /\ historyPointer = -1
        /\ ~canUndo
        /\ ~canRedo

\* a reset of a history that held snapshots, with undo and redo available
C8_Witness ==
    /\ last.op = "resetHistory"
    /\ last.length0 >= 3
    /\ last.pointer0 = 1

\* C9: undo returns null and changes nothing when historyPointer <= 0; redo
\* returns null and changes nothing when historyPointer is the last index;
\* canUndo (canRedo) is true exactly when undo (redo) returns a snapshot, and
\* the toolbar's buttons are disabled exactly when null is returned.
C9_NullCases ==
    [][/\ (last'.op = "undo" /\ historyPointer <= 0) =>
            /\ last'.ret = Null
            /\ history' = history
            /\ historyPointer' = historyPointer
       /\ (last'.op = "redo" /\ historyPointer = Len(history) - 1) =>
            /\ last'.ret = Null
            /\ history' = history
            /\ historyPointer' = historyPointer
       /\ last'.op = "undo" =>
            /\ canUndo <=> (last'.ret.kind = "value")
            /\ UndoButtonDisabled(historyPointer, Len(history)) <=> (last'.ret = Null)
       /\ last'.op = "redo" =>
            /\ canRedo <=> (last'.ret.kind = "value")
            /\ RedoButtonDisabled(historyPointer, Len(history)) <=> (last'.ret = Null)]_vars

\* an undo refused at the first snapshot while a redo is available
C9_Witness ==
    /\ last.op = "undo"
    /\ last.ret = Null
    /\ last.pointer0 = 0
    /\ last.length0 >= 2
    /\ historyPointer = 0

-----------------------------------------------------------------------------
(* Properties of the editor, checked under Spec *)

\* the editing actions of C3, when they changed the displayed list
EditingActionRan ==
    \/ last.op \in {"handleDeleteSubtitle", "handleSplitSegment", "handleMergeSelected"} /\ subtitles # last.subtitles0
    \/ last.op = "onBlur" /\ subtitles # last.edit0

\* the list displayed immediately before the editing action: before the
\* handler ran, and for a field edit before the field received the focus
ListBeforeEditingAction == IF last.op = "onBlur" THEN last.edit0 ELSE last.subtitles0

\* C3: performing an editing action (delete, split, merge, or a field edit
\* committed by leaving the field) and then invoking Undo once restores the
\* displayed subtitle list to what it was immediately before the action.
C3_UndoRestoresListBeforeAction ==
    [][(EditingActionRan /\ last'.op = "performUndo") => subtitles' = ListBeforeEditingAction]_vars

\* C10: handleSubtitleChange(i, field, v) sets the field of segment i to v; if
\* field is endTime, v is a well-formed timestamp and i is not the last
\* segment, the startTime of segment i+1 becomes v; if field is startTime, v is
\* well-formed and i > 0, the endTime of segment i-1 becomes v; otherwise no
\* neighbour changes.  No other segment, the list length, the selection or the
\* history is modified.
C10_ChangeCascades ==
    [][last'.op = "handleSubtitleChange" =>
        LET i == last'.arg.index + 1
            field == last'.arg.field
            v == last'.arg.value
            n == Len(subtitles)
            wellFormed == validateTimeFormat(v)
            toNext == field = "endTime" /\ wellFormed /\ i < n
            toPrevious == field = "startTime" /\ wellFormed /\ i > 1
        IN /\ Len(subtitles') = n
           /\ subtitles'[i] = SetField(subtitles[i], field, v)
           /\ \A j \in 1..n :
                \/ j = i
                \/ j = i + 1 /\ toNext /\ subtitles'[j] = [subtitles[j] EXCEPT !.startTime = v]
                \/ j = i - 1 /\ toPrevious /\ subtitles'[j] = [subtitles[j] EXCEPT !.endTime = v]
                \/ ~(j = i + 1 /\ toNext) /\ ~(j = i - 1 /\ toPrevious) /\ subtitles'[j] = subtitles[j]
           /\ selectedIndices' = selectedIndices
           /\ lastSelectedIndex' = lastSelectedIndex
           /\ history' = history
           /\ historyPointer' = historyPointer]_vars

\* a well-formed end time typed into the middle row of three, with a row
\* selected: the next row's start follows, the previous row stays
C10_Witness ==
    /\ last.op = "handleSubtitleChange"
    /\ last.arg.field = "endTime"
    /\ last.arg.index = 1
    /\ validateTimeFormat(last.arg.value)
    /\ Len(subtitles) = 3
    /\ selectedIndices # <<>>
    /\ subtitles[3].startTime = last.arg.value
    /\ last.subtitles0[3].startTime # last.arg.value
    /\ subtitles[1] = last.subtitles0[1]

\* no two adjacent segments overlap: wherever the end of a segment and the
\* start of the next one are both well-formed timestamps, the end is not
\* after the start
NoAdjacentOverlap(list) ==
    \A i \in 1..(Len(list) - 1) :
        (validateTimeFormat(list[i].endTime) /\ validateTimeFormat(list[i + 1].startTime)) =>
            timeToSeconds(list[i].endTime) <= timeToSeconds(list[i + 1].startTime)

\* C11: starting from a list without overlaps in which every segment has
\* start <= end (the transcription result), after any sequence of editor
\* operations (time edits with cascading, delete, split, merge, undo, redo) no
\* two adjacent segments of the displayed list overlap.
C11_NoAdjacentOverlap == NoAdjacentOverlap(subtitles)

\* delete, split and merge, when they are carried out: a split whose cursor is
\* strictly inside the text, a merge of a consecutive selection of segments
\* that exist
ListOperationRuns ==
    \/ last'.op = "handleDeleteSubtitle"
    \/ /\ last'.op = "handleSplitSegment"
       /\ last'.arg.cursor > 0
       /\ last'.arg.cursor < Len(subtitles[last'.arg.index + 1].text)
    \/ /\ last'.op = "handleMergeSelected"
       /\ isSelectionConsecutive
       /\ last'.ret # Thrown

\* C12: after every delete, split or merge, the index field of the segment at
\* 0-based position p is p + 1, for every position p of the resulting list.
C12_IndicesRenumbered ==
    [][ListOperationRuns => \A p \in 0..(Len(subtitles') - 1) : subtitles'[p + 1].index = p + 1]_vars

\* the first of three segments deleted: the two that remain carried the
\* indices 2 and 3 and now carry 1 and 2
C12_Witness ==
    /\ last.op = "handleDeleteSubtitle"
    /\ last.arg.index = 0
    /\ Len(last.subtitles0) = 3
    /\ Len(subtitles) = 2
    /\ last.subtitles0[2].index = 2
    /\ subtitles[1].text = last.subtitles0[2].text
    /\ subtitles[1].index = 1

\* the positions a selection holds, and the least and greatest of them
Selected(sel) == {sel[j] : j \in 1..Len(sel)}

Least(S) == CHOOSE x \in S : \A y \in S : x <= y

Greatest(S) == CHOOSE x \in S : \A y \in S : x >= y

\* the step pushes the list s to the history: a list equal to the snapshot at
\* the pointer leaves the history alone; any other list replaces the snapshots
\* after the pointer and becomes the one the pointer is at
PushedToHistory(s) ==
    IF TipOf(history, historyPointer) = Value(s)
    THEN history' = history /\ historyPointer' = historyPointer
    ELSE LET newHistory == SubSeq(history, 1, Min(historyPointer + 1, Len(history))) \o <<s>> IN
         /\ history' = IF Len(newHistory) > MAX_HISTORY THEN Tail(newHistory) ELSE newHistory
         /\ historyPointer' = Min(historyPointer + 1, MAX_HISTORY - 1)

\* C13: merging a consecutive selection of k >= 2 segments at positions f..l
\* replaces them by one segment with the startTime of segment f, the endTime
\* of segment l and the k texts in order joined by single spaces; the segments
\* before f and after l keep their order, times and text; the list shrinks by
\* k - 1, the selection becomes empty and the merged list is pushed to history.
C13_MergeReplacesRun ==
    [][(last'.op = "handleMergeSelected" /\ isSelectionConsecutive /\ last'.ret # Thrown) =>
        LET k == Len(selectedIndices)
            f == Least(Selected(selectedIndices))
            l == Greatest(Selected(selectedIndices))
            n == Len(subtitles)
        IN /\ k >= 2
           /\ l = f + k - 1
           /\ Len(subtitles') = n - (k - 1)
           /\ subtitles'[f + 1].startTime = subtitles[f + 1].startTime
           /\ subtitles'[f + 1].endTime = subtitles[l + 1].endTime
           /\ subtitles'[f + 1].text = JoinWithSpace([j \in 1..k |-> subtitles[f + j].text])
           /\ \A p \in 0..(f - 1) :
                /\ subtitles'[p + 1].startTime = subtitles[p + 1].startTime
                /\ subtitles'[p + 1].endTime = subtitles[p + 1].endTime
                /\ subtitles'[p + 1].text = subtitles[p + 1].text
           /\ \A p \in (l + 1)..(n - 1) :
                /\ subtitles'[p + 1 - (k - 1)].startTime = subtitles[p + 1].startTime
                /\ subtitles'[p + 1 - (k - 1)].endTime = subtitles[p + 1].endTime
                /\ subtitles'[p + 1 - (k - 1)].text = subtitles[p + 1].text
           /\ selectedIndices' = <<>>
           /\ PushedToHistory(subtitles')]_vars

\* the second and third of three segments merged: "c" and "d" become "c d"
\* from 0:02.000 to 0:06.000, the first segment stays, the merged list is the
\* new snapshot at the pointer
C13_Witness ==
    /\ last.op = "handleMergeSelected"
    /\ last.ret = NoValue
    /\ Len(last.subtitles0) = 3
    /\ Len(subtitles) = 2
    /\ subtitles[1] = last.subtitles0[1]
    /\ subtitles[2].text = last.subtitles0[2].text \o <<" ">> \o last.subtitles0[3].text
    /\ subtitles[2].startTime = last.subtitles0[2].startTime
    /\ subtitles[2].endTime = last.subtitles0[3].endTime
    /\ subtitles[2].endTime # last.subtitles0[2].endTime
    /\ selectedIndices = <<>>
    /\ historyPointer = last.pointer0 + 1
    /\ history[historyPointer + 1] = subtitles

\* at least two positions are selected and they form a contiguous run
ContiguousRun(sel) ==
    /\ Len(sel) >= 2
    /\ Cardinality(Selected(sel)) = Len(sel)
    /\ \A x \in Least(Selected(sel))..Greatest(Selected(sel)) : x \in Selected(sel)

\* C14: isSelectionConsecutive is true exactly when at least two positions are
\* selected and they form a contiguous run (and the Merge button is enabled
\* exactly then); when it is false, handleMergeSelected changes nothing: the
\* subtitle list, the selection and the history are unchanged.
C14_OnlyConsecutiveMerge ==
    [][/\ isSelectionConsecutive <=> ContiguousRun(selectedIndices)
       /\ isSelectionConsecutive' <=> ContiguousRun(selectedIndices')
       /\ MergeButtonRendered(Len(selectedIndices)) =>
            (MergeButtonDisabled(isSelectionConsecutive) <=> ~ContiguousRun(selectedIndices))
       /\ (last'.op = "handleMergeSelected" /\ ~isSelectionConsecutive) =>
            /\ subtitles' = subtitles
            /\ selectedIndices' = selectedIndices
            /\ history' = history
            /\ historyPointer' = historyPointer]_vars

\* handleMergeSelected called with the first and the third of three segments
\* selected: nothing changed
C14_Witness ==
    /\ last.op = "handleMergeSelected"
    /\ selectedIndices = <<0, 2>>
    /\ ~isSelectionConsecutive
    /\ Len(subtitles) = 3
    /\ subtitles = last.subtitles0
    /\ historyPointer = last.pointer0
    /\ Len(history) = last.length0

\* a half of a split text: trimmed, or '...' when nothing but blanks is left
HalfText(s) == IF \A i \in 1..Len(s) : s[i] = " " THEN <<".", ".", ".">> ELSE Trim(s)

\* C15: splitting segment k at a cursor position c with 0 < c < text length
\* replaces it by two adjacent segments: the left keeps the startTime, the
\* right keeps the endTime, the left's endTime is the right's startTime, their
\* texts are the trimmed text before and after the cursor (or '...' for a blank
\* half); all other segments keep their order, times and text, the list grows
\* by exactly one and the new list is pushed to history.
C15_SplitReplacesSegment ==
    [][(/\ last'.op = "handleSplitSegment"
        /\ last'.arg.cursor > 0
        /\ last'.arg.cursor < Len(subtitles[last'.arg.index + 1].text)) =>
        LET k == last'.arg.index
            c == last'.arg.cursor
            segment == subtitles[k + 1]
            n == Len(subtitles)
            left == subtitles'[k + 1]
            right == subtitles'[k + 2]
        IN /\ Len(subtitles') = n + 1
           /\ left.startTime = segment.startTime
           /\ right.endTime = segment.endTime
           /\ left.endTime = right.startTime
           /\ left.text = HalfText(SubSeq(segment.text, 1, c))
           /\ right.text = HalfText(SubSeq(segment.text, c + 1, Len(segment.text)))
           /\ \A p \in 0..(k - 1) :
                /\ subtitles'[p + 1].startTime = subtitles[p + 1].startTime
                /\ subtitles'[p + 1].endTime = subtitles[p + 1].endTime
                /\ subtitles'[p + 1].text = subtitles[p + 1].text
           /\ \A p \in (k + 1)..(n - 1) :
                /\ subtitles'[p + 2].startTime = subtitles[p + 1].startTime
                /\ subtitles'[p + 2].endTime = subtitles[p + 1].endTime
                /\ subtitles'[p + 2].text = subtitles[p + 1].text
           /\ PushedToHistory(subtitles')]_vars

\* the second of three segments, its text " z", split after the blank: the
\* left half is '...', the right half is "z", they meet at 0:03.000, the
\* segments around them are untouched and the new list is the snapshot at the
\* pointer
C15_Witness ==
    /\ last.op = "handleSplitSegment"
    /\ last.arg.index = 1
    /\ last.arg.cursor = 1
    /\ Len(last.subtitles0) = 3
    /\ last.subtitles0[2].text = <<" ", "z">>
    /\ Len(subtitles) = 4
    /\ subtitles[2].text = <<".", ".", ".">>
    /\ subtitles[3].text = <<"z">>
    /\ subtitles[2].endTime = <<"0", "0", ":", "0", "3", ".", "0", "0", "0">>
    /\ subtitles[3].startTime = subtitles[2].endTime
    /\ subtitles[3].startTime # last.subtitles0[2].startTime
    /\ subtitles[4].text = last.subtitles0[3].text
    /\ history[historyPointer + 1] = subtitles

\* C16: when the segment at position j is shift-clicked and the last plainly
\* clicked position a (lastSelectedIndex) exists with a # j, the selection
\* becomes exactly the positions min(a, j)..max(a, j), replacing the previous
\* selection; a click without Shift toggles only the clicked position and
\* makes it the new anchor.
C16_ShiftClickSelectsRange ==
    [][last'.op = "handleToggleSelect" =>
        LET j == last'.arg.index
            a == lastSelectedIndex
            before == Selected(selectedIndices)
            after == Selected(selectedIndices')
        IN /\ (last'.arg.shiftKey /\ a # -1 /\ a # j) =>
                /\ after = Min(a, j)..Max(a, j)
                /\ Len(selectedIndices') = Max(a, j) - Min(a, j) + 1
           /\ ~last'.arg.shiftKey =>
                /\ after = IF j \in before THEN before \ {j} ELSE before \cup {j}
                /\ Len(selectedIndices') = Cardinality(after)
                /\ lastSelectedIndex' = j]_vars

\* row 1 shift-clicked right after a click that left the anchor at row 0: the
\* selection is rows 0 and 1
C16_Witness ==
    /\ last.op = "handleToggleSelect"
    /\ last.arg.shiftKey
    /\ last.arg.index = 1
    /\ lastSelectedIndex = 0
    /\ last.prev = "handleToggleSelect"
    /\ selectedIndices = <<0, 1>>
    /\ Len(subtitles) = 3

\* the last handler ran on a keydown of the Z key with Ctrl or Cmd held
ShortcutPressed(run) ==
    /\ "key" \in DOMAIN run.arg
    /\ run.arg.ctrlKey \/ run.arg.metaKey

\* C17: a keydown of Ctrl+Z (or Cmd+Z) without Shift performs undo, and a
\* keydown of Ctrl+Shift+Z (or Cmd+Shift+Z) performs redo.
C17_ShortcutsUndoRedo ==
    ShortcutPressed(last) =>
        /\ ~last.arg.shiftKey => last.op = "performUndo"
        /\ last.arg.shiftKey => last.op = "performRedo"

-----------------------------------------------------------------------------
(* Properties of the SRT export, checked under SpecExport *)

\* a number below 100 in two digits, a number below 1000 in three
TwoDigits(n) == <<DigitSeq[(n \div 10) + 1], DigitSeq[(n % 10) + 1]>>

ThreeDigits(n) == <<DigitSeq[(n \div 100) + 1], DigitSeq[((n \div 10) % 10) + 1], DigitSeq[(n % 10) + 1]>>

\* the instant of so many milliseconds as HH:MM:SS,mmm
SrtInstant(millis) ==
    TwoDigits(millis \div 3600000) \o <<":">> \o TwoDigits((millis \div 60000) % 60) \o <<":">>
        \o TwoDigits((millis \div 1000) % 60) \o <<",">> \o ThreeDigits(millis % 1000)

\* a well-formed timestamp is rendered as the instant it denotes
RenderedTime(time) == IF validateTimeFormat(time) THEN SrtInstant(timeToSeconds(time)) ELSE formatTime(time)

\* the index, the line of the two times, the text, each ended by a line feed
RenderedBlock(entry) ==
    NumToString(entry.index) \o <<"\n">>
        \o RenderedTime(entry.startTime) \o <<" ", "-", "-", ">", " ">> \o RenderedTime(entry.endTime) \o <<"\n">>
        \o entry.text \o <<"\n">>

\* the blocks in list order, a blank line between one block and the next
RECURSIVE RenderedList(_)
RenderedList(entries) ==
    IF entries = <<>> THEN <<>>
    ELSE IF Len(entries) = 1 THEN RenderedBlock(entries[1])
    ELSE RenderedBlock(entries[1]) \o <<"\n">> \o RenderedList(Tail(entries))

\* C18: convertToSRT renders the entries in list order, each as its index, a
\* line 'HH:MM:SS,mmm --> HH:MM:SS,mmm' and its text, with one blank line
\* between blocks; every well-formed M:SS.mmm timestamp is rendered as the same
\* instant (minutes of 60 or more carry into hours, minutes are reduced modulo
\* 60, seconds and milliseconds are preserved).
C18_ConvertToSRT ==
    last.op = "triggerDownload" => last.ret = Value(RenderedList(last.arg.content))

\* two entries saved, the first starting at 75:07.050: the file starts with
\* "1", a line feed and 01:15:07,050, and holds one blank line
C18_Witness ==
    /\ last.op = "triggerDownload"
    /\ Len(last.arg.content) = 2
    /\ last.arg.content[1].startTime = <<"7", "5", ":", "0", "7", ".", "0", "5", "0">>
    /\ SubSeq(last.ret.val, 1, 14) = <<"1", "\n", "0", "1", ":", "1", "5", ":", "0", "7", ",", "0", "5", "0">>
    /\ Cardinality({i \in 1..(Len(last.ret.val) - 1) : last.ret.val[i] = "\n" /\ last.ret.val[i + 1] = "\n"}) = 1

\* the last handler downloaded the translation of a list
TranslationDownloaded == last.op = "triggerDownload" /\ "source" \in DOMAIN last.arg

\* C19: every translated list that the export downloads has as many entries as
\* the source list and, entry by entry, the same index, startTime and endTime.
C19_TranslationKeepsTimestamps ==
    TranslationDownloaded =>
        /\ Len(last.arg.content) = Len(last.arg.source)
        /\ \A i \in 1..Len(last.arg.source) :
            /\ last.arg.content[i].index = last.arg.source[i].index
            /\ last.arg.content[i].startTime = last.arg.source[i].startTime
            /\ last.arg.content[i].endTime = last.arg.source[i].endTime

-----------------------------------------------------------------------------
(* Properties of a transcription in flight, checked under Spec *)

\* what the user may do to the list while a transcription is in flight; the
\* Transcribe button is disabled meanwhile, so the handler that ran right
\* before the result arrived ran while the request was in flight
OpsInFlight ==
    {"handleSubtitleChange", "onBlur", "handleDeleteSubtitle", "handleSplitSegment",
     "handleMergeSelected", "performUndo", "performRedo"}

\* C20: a transcription result that arrives after the user has edited,
\* deleted, undone or redone while the request was in flight is recorded
\* consistently: once it is applied, historyPointer is a valid index of
\* history and history[historyPointer] is the displayed list, the result.
C20_LateResultRecorded ==
    (last.op = "transcribeSettled" /\ last.arg.outcome = "subtitles" /\ last.prev \in OpsInFlight) =>
        /\ subtitles = last.arg.result
        /\ 0 <= historyPointer
        /\ historyPointer <= Len(history) - 1
        /\ history[historyPointer + 1] = subtitles

-----------------------------------------------------------------------------
(* Properties of the editor as a whole, checked under Spec *)

\* C21: a transcription started for one file never populates the editor once
\* that file has been removed: in every reachable state, if no file is loaded
\* then the subtitle list and the history are empty.
C21_NoFileNoSubtitles ==
    file = 0 => (subtitles = <<>> /\ history = <<>>)

\* C22: in every reachable state every selected position refers to an
\* existing segment: 0 <= i < number of segments.
C22_SelectionInRange ==
    \A k \in 1..Len(selectedIndices) :
        0 <= selectedIndices[k] /\ selectedIndices[k] < Len(subtitles)

\* the last handler was a committing action that took effect: a transcription
\* that returned subtitles, a delete, an accepted split, a performed merge, an
\* undo or a redo that returned a snapshot
CommittingActionRan ==
    \/ last.op = "transcribeSettled" /\ last.arg.outcome = "subtitles"
    \/ last.op = "handleDeleteSubtitle"
    \/ last.op = "handleSplitSegment" /\ Len(subtitles) = Len(last.subtitles0) + 1
    \/ last.op = "handleMergeSelected" /\ Len(subtitles) < Len(last.subtitles0)
    \/ last.op \in {"performUndo", "performRedo"} /\ last.ret.kind = "value"

\* C23: after every committing action performed through the app with no
\* request in flight (successful transcription, delete, split, merge, undo,
\* redo), the displayed subtitle list equals the snapshot history[historyPointer].
C23_ListIsSnapshotAtPointer ==
    (CommittingActionRan /\ pending = {}) =>
        /\ 0 <= historyPointer
        /\ historyPointer < Len(history)
        /\ history[historyPointer + 1] = subtitles

\* C24: field edits are committed on blur: when a text or time field loses
\* the focus and the history is non-empty, afterwards history[historyPointer]
\* equals the displayed subtitle list, also when the blur handler
\* auto-completed the time; if the list did not change since the last
\* snapshot nothing is pushed.
C24_BlurCommits ==
    [][(last'.op = "onBlur" /\ history # <<>>) =>
        /\ TipOf(history', historyPointer') = Value(subtitles')
        /\ (TipOf(history, historyPointer) = Value(subtitles') =>
                history' = history /\ historyPointer' = historyPointer)]_vars

-----------------------------------------------------------------------------
(* The full history, checked under SpecHistory *)

\* C25: pushToHistory of a new state on a full history (50 snapshots,
\* historyPointer = 49) drops the oldest snapshot, keeps the other 49 in their
\* order followed by the new state, and leaves historyPointer at 49; an undo
\* that succeeds moves the pointer down by one from at most 49 and not below
\* 0, so at most 49 consecutive undos succeed.
C25_PushOnFullHistory ==
    [][/\ (/\ last'.op = "pushToHistory"
           /\ Len(history) = MAX_HISTORY
           /\ historyPointer = MAX_HISTORY - 1
           /\ history[MAX_HISTORY] # last'.arg.newState) =>
                /\ Len(history') = MAX_HISTORY
                /\ \A i \in 1..(MAX_HISTORY - 1) : history'[i] = history[i + 1]
                /\ history'[MAX_HISTORY] = last'.arg.newState
                /\ historyPointer' = MAX_HISTORY - 1
       /\ (last'.op = "undo" /\ last'.ret.kind = "value") =>
                /\ historyPointer <= MAX_HISTORY - 1
                /\ historyPointer' = historyPointer - 1
                /\ historyPointer' >= 0]_vars

\* a new state pushed onto 50 snapshots with the pointer at the last: the
\* snapshot that was at the pointer is now the 49th and the new state the 50th
C25_Witness ==
    /\ last.op = "pushToHistory"
    /\ last.length0 = MAX_HISTORY
    /\ last.pointer0 = MAX_HISTORY - 1
    /\ last.tip0 # Value(last.arg.newState)
    /\ Len(history) = MAX_HISTORY
    /\ historyPointer = MAX_HISTORY - 1
    /\ history[MAX_HISTORY] = last.arg.newState
    /\ Value(history[MAX_HISTORY - 1]) = last.tip0

-----------------------------------------------------------------------------
(* Delete and split, checked under Spec *)

\* the segments a and b have the same times and text
SameTimesAndText(a, b) ==
    a.startTime = b.startTime /\ a.endTime = b.endTime /\ a.text = b.text

\* C26: handleDeleteSubtitle(d) removes exactly the segment at position d:
\* the list shrinks by one, the segments before d and after d keep their
\* order, times and text, and the resulting list is pushed to the history.
C26_DeleteRemovesOne ==
    [][last'.op = "handleDeleteSubtitle" =>
        LET d == last'.arg.index
            n == Len(subtitles)
        IN /\ Len(subtitles') = n - 1
           /\ \A p \in 0..(d - 1) : SameTimesAndText(subtitles'[p + 1], subtitles[p + 1])
           /\ \A p \in (d + 1)..(n - 1) : SameTimesAndText(subtitles'[p], subtitles[p + 1])
           /\ PushedToHistory(subtitles')]_vars

\* the first of three segments deleted: the second and third are now the
\* first and second, and the two-segment list is the snapshot at the pointer
C26_Witness ==
    /\ last.op = "handleDeleteSubtitle"
    /\ last.arg.index = 0
    /\ Len(last.subtitles0) = 3
    /\ Len(subtitles) = 2
    /\ SameTimesAndText(subtitles[1], last.subtitles0[2])
    /\ SameTimesAndText(subtitles[2], last.subtitles0[3])
    /\ TipOf(history, historyPointer) = Value(subtitles)
    /\ historyPointer = last.pointer0 + 1

\* C27: delete and split keep the selection attached to the same segments:
\* after deleting position d, the entry d is gone from the selection and every
\* selected position greater than d is decremented by one; after splitting
\* position k, every selected position greater than k is incremented by one;
\* all other selected positions are unchanged.
C27_SelectionFollowsSegments ==
    [][/\ last'.op = "handleDeleteSubtitle" =>
            LET d == last'.arg.index
                S == Selected(selectedIndices)
            IN /\ Selected(selectedIndices') = {i \in S : i < d} \cup {i - 1 : i \in {j \in S : j > d}}
               /\ Len(selectedIndices') = Cardinality(S \ {d})
       /\ (last'.op = "handleSplitSegment" /\ Len(subtitles') = Len(subtitles) + 1) =>
            LET k == last'.arg.index
                S == Selected(selectedIndices)
            IN /\ Selected(selectedIndices') = {i \in S : i <= k} \cup {i + 1 : i \in {j \in S : j > k}}
               /\ Len(selectedIndices') = Cardinality(S)]_vars

\* the first of three segments deleted while the third was selected: the
\* selection is now position 1, where that segment is
C27_Witness ==
    /\ last.op = "handleDeleteSubtitle"
    /\ last.arg.index = 0
    /\ Len(last.subtitles0) = 3
    /\ Len(subtitles) = 2
    /\ selectedIndices = <<1>>

-----------------------------------------------------------------------------
(* The split of one segment: handleSplitSegment on the times of SplitTimes *)

\* the seconds of the segment's times go up to MaxSplitSeconds, the length of
\* its text up to MaxTextLength
MaxSplitSeconds == 1

MaxTextLength == 3

\* the milliseconds of the segment's times
SplitMillis == {1, 300, 500}

\* well-formed timestamps 0:SS.mmm
SplitTimes ==
    {<<"0", ":">> \o PadStart(NumToString(s), 2, "0") \o <<".">> \o PadStart(NumToString(ms), 3, "0") :
        s \in 0..MaxSplitSeconds, ms \in SplitMillis}

\* the lists the split is run on: one segment that does not end before it starts
SplitLists ==
    {<<Entry(1, startTime, endTime, [i \in 1..n |-> "a"])>> :
        <<startTime, endTime, n>> \in
            {x \in SplitTimes \X SplitTimes \X (2..MaxTextLength) : timeToSeconds(x[1]) <= timeToSeconds(x[2])}}

\* the segment is in the editor, committed, and its text has the focus
InitSplit ==
    /\ subtitles \in SplitLists
    /\ history = <<subtitles>>
    /\ historyPointer = 0
    /\ selectedIndices = <<>>
    /\ lastSelectedIndex = -1
    /\ focusedIndex = 0
    /\ focus = [row |-> 0, field |-> "text"]
    /\ file = 1
    /\ isProcessing = FALSE
    /\ error = ""
    /\ pending = {}
    /\ audioUrl = 1
    /\ duration = 0
    /\ range = <<0, 0>>
    /\ loadingAudio = {1}
    /\ steps = 0
    /\ last = [op |-> "init", arg |-> NoArg, ret |-> NoValue, prev |-> "none",
               pointer0 |-> -1, length0 |-> 0, tip0 |-> Null, subtitles0 |-> <<>>,
               edit0 |-> <<>>]

NextSplit == SplitSome

SpecSplit == InitSplit /\ [][NextSplit]_vars

\* C29: for a segment with well-formed times and start <= end, the timestamp
\* at which handleSplitSegment cuts is itself a well-formed M:SS.mmm timestamp
\* and lies within the segment (start <= split <= end), at
\* start + (end - start) * cursor / textLength truncated to milliseconds; so
\* both halves have start <= end.
C29_SplitTimeWithinSegment ==
    [][(/\ last'.op = "handleSplitSegment"
        /\ Len(subtitles') = Len(subtitles) + 1
        /\ validateTimeFormat(subtitles[last'.arg.index + 1].startTime)
        /\ validateTimeFormat(subtitles[last'.arg.index + 1].endTime)
        /\ timeToSeconds(subtitles[last'.arg.index + 1].startTime)
             <= timeToSeconds(subtitles[last'.arg.index + 1].endTime)) =>
        LET k == last'.arg.index
            c == last'.arg.cursor
            n == Len(subtitles[k + 1].text)
            start == timeToSeconds(subtitles[k + 1].startTime)
            end == timeToSeconds(subtitles[k + 1].endTime)
            left == subtitles'[k + 1]
            right == subtitles'[k + 2]
            split == timeToSeconds(left.endTime)
        IN /\ validateTimeFormat(left.endTime)
           /\ right.startTime = left.endTime
           /\ start <= split
           /\ split <= end
           /\ split = (start * n + (end - start) * c) \div n
           /\ timeToSeconds(left.startTime) <= timeToSeconds(left.endTime)
           /\ timeToSeconds(right.startTime) <= timeToSeconds(right.endTime)]_vars

-----------------------------------------------------------------------------
(* The answer of the transcription service, checked under Spec *)

\* C30: if the transcription service fails or returns no subtitles, an error
\* message is set ("Transcription service failed." or "Model returned no
\* subtitles...") and the subtitle list, the selection and the history stay
\* exactly as they were; only a non-empty result replaces the subtitle list
\* and is pushed to history.
C30_FailureLeavesEditor ==
    [][last'.op = "transcribeSettled" =>
        /\ last'.arg.outcome = "failed" =>
            /\ error' = "Transcription service failed."
            /\ UNCHANGED <<subtitles, selectedIndices, history, historyPointer>>
        /\ last'.arg.outcome = "empty" =>
            /\ error' = "Model returned no subtitles. Try a segment with clearer speech."
            /\ UNCHANGED <<subtitles, selectedIndices, history, historyPointer>>
        /\ last'.arg.outcome = "subtitles" =>
            /\ last'.arg.result # <<>>
            /\ subtitles' = last'.arg.result
            /\ PushedToHistory(last'.arg.result)]_vars

-----------------------------------------------------------------------------
(* Properties of the requests to the service, checked under SpecService and *)
(* SpecServiceFair                                                          *)

\* C31: every started transcription and every started translation export
\* eventually sets isProcessing back to false, whatever the outcome: whenever
\* isProcessing is true, a state in which it is false follows.
C31_ProcessingEnds == isProcessing ~> ~isProcessing

\* the requests to the service that are in flight
RequestsInFlight == {request \in pending : request.kind \in {"transcribe", "translate"}}

\* C32: at most one request to the service (transcription or translation) is
\* in flight at any time, isProcessing is true whenever a request is in
\* flight, and no handler starts a new request while isProcessing is true.
C32_OneRequestInFlight ==
    /\ [](Cardinality(RequestsInFlight) <= 1 /\ (RequestsInFlight # {} => isProcessing))
    /\ [][(last'.op \in {"handleTranscribe", "translateAndDownloadAll"} /\ pending' # pending)
                => ~isProcessing]_vars

\* a translation is in flight while the file is loaded and the list is shown:
\* the Transcribe/Regenerate and the Export Translated buttons are rendered
C32_Witness ==
    /\ \E request \in RequestsInFlight : request.kind = "translate"
    /\ isProcessing
    /\ file # 0
    /\ Len(subtitles) > 0

\* what the export shows when the translation to a language fails
FailureMessage(lang) == "Failed to translate to " \o lang \o ". Continuing with others..."

\* C33: translateAndDownloadAll attempts every language that was selected when
\* the export started exactly once, one at a time in selection order: the
\* export starts with all of them still to do, and every answer or failure is
\* that of the first language still to do and leaves the others to do.  A
\* failure sets the error message naming the language, and a download is
\* triggered exactly when the translation returned a non-empty list.
C33_EveryLanguageAttempted ==
    [][/\ (last'.op = "translateAndDownloadAll" /\ file # 0) =>
            \E request \in pending' \ pending :
                /\ request.kind = "translate"
                /\ request.languages = last'.arg.selectedLanguages
       /\ \A request \in pending :
            (request.kind = "translate" /\ request \notin pending') =>
                LET lang == Head(request.languages)
                    others == Tail(request.languages)
                IN /\ last'.arg.language = lang
                   /\ IF others = <<>>
                      THEN \A r \in pending' : r.kind # "translate"
                      ELSE [request EXCEPT !.languages = others] \in pending'
                   /\ (last'.arg.answer = Thrown) => error' = FailureMessage(lang)
                   /\ (last'.op = "triggerDownload") <=>
                        (last'.arg.answer # Thrown /\ Len(last'.arg.answer.val) > 0)
                   /\ (last'.op = "triggerDownload") =>
                        /\ last'.arg.content = last'.arg.answer.val
                        /\ last'.arg.suffix = getLangCode(lang)]_vars

\* Dutch and English were selected, the translation to Dutch failed and the
\* translation to English has just been downloaded
C33_Witness ==
    /\ last.op = "triggerDownload"
    /\ "language" \in DOMAIN last.arg
    /\ last.arg.language = "English"
    /\ last.arg.suffix = "en"
    /\ error = FailureMessage("Dutch")
    /\ RequestsInFlight = {}
    /\ ~isProcessing

\* C34: saving and exporting (triggerDownload, translateAndDownloadAll and the
\* answers it handles) never change the subtitle list, the selection or the
\* history, whether the translations succeed or fail; with no file loaded,
\* triggerDownload does nothing: it offers no download and changes no state.
C34_SaveAndExportChangeNothing ==
    [][/\ (last'.op \in {"triggerDownload", "translateAndDownloadAll", "translateSettled"}) =>
            UNCHANGED <<subtitles, selectedIndices, history, historyPointer>>
       /\ (last'.op = "triggerDownload" /\ file = 0) =>
            /\ last'.ret = NoValue
            /\ UNCHANGED <<history, historyPointer, subtitles, selectedIndices, lastSelectedIndex,
                           focusedIndex, focus, file, isProcessing, error, pending, playerVars>>]_vars

-----------------------------------------------------------------------------
(* Properties of the file handler, checked under SpecService and SpecRange *)

\* C35: uploading a file or removing the file empties the subtitle list and
\* the selection, resets the history to empty with historyPointer -1 and
\* clears the error; removing the file also sets file and audio URL to none,
\* duration to 0 and range to [0, 0].
C35_UploadAndRemoveReset ==
    [][/\ (last'.op \in {"onFileUploadWrapper", "onRemoveFile"}) =>
            /\ subtitles' = <<>>
            /\ selectedIndices' = <<>>
            /\ history' = <<>>
            /\ historyPointer' = -1
            /\ error' = ""
       /\ (last'.op = "onRemoveFile") =>
            /\ file' = 0
            /\ audioUrl' = 0
            /\ duration' = 0
            /\ range' = <<0, 0>>]_vars

\* the file was removed while a list with ticked rows, a history, a duration
\* and a range were held
C35_Witness ==
    /\ last.op = "onRemoveFile"
    /\ Len(last.subtitles0) > 0
    /\ last.length0 > 0
    /\ "range0" \in DOMAIN last.arg
    /\ last.arg.range0 # <<0, 0>>
    /\ last.arg.selected0 # <<>>

\* the handlers of the audio player that set the range
RangeEdits == {"handleStartChange", "handleEndChange", "handleStartInputBlur", "handleEndInputBlur"}

\* C36: the transcription range is initialised to [0, min(duration, 60)] when
\* the audio metadata loads, and after any sequence of slider moves and typed
\* range edits it still satisfies 0 <= start < end <= duration.
C36_RangeWithinDuration ==
    /\ (last.op = "onloadedmetadata") => range = <<0, Min(duration, 60000)>>
    /\ (last.op \in RangeEdits \cup {"onloadedmetadata"} /\ duration > 0) =>
            /\ 0 <= range[1]
            /\ range[1] < range[2]
            /\ range[2] <= duration

=============================================================================
